---- MODULE Spec2Model ----
(***************************************************************************)
(* Model of the exclusion resolver of the resource-pool viewer: the scoped *)
(* useExclusions hook (src/lib/useExclusions.ts, second variant, lines     *)
(* 135-300), its React state, its two effects (load on mount, save on      *)
(* change) and the browser's localStorage entry it persists to.            *)
(*                                                                         *)
(* JavaScript values are modelled as follows.  A user name is a sequence   *)
(* of one-character strings, so that toLowerCase() and trim() are computed *)
(* and not assumed.  A program, a state and a visit type are strings; the  *)
(* value `undefined` is the string Undefined.  An object is a function     *)
(* from its own keys to values; reading a key that is not there gives      *)
(* Undefined.  JSON null is the object Null.  A boolean result of a call   *)
(* that may throw is one of "true", "false", TypeError.                    *)
(***************************************************************************)
EXTENDS Integers, Sequences, FiniteSets, TLC

\* ------------------------------------------------------------------ bounds
MaxOverrides == 2   \* longest override list a toggle may grow
MaxIOFailures == 1  \* localStorage accesses that throw in one behaviour
MaxDataRows == 2    \* data rows of a parsed table

\* ------------------------------------------------------- program constants
MinRows == 3        \* rows.length < 3

\* ------------------------------------------------------------- JS values
Undefined == "<undefined>"
TypeError == "TypeError"
Null      == [jsonNull |-> "null"]

Programs   == {"HRT", "TRT"}
VisitTypes == {"Initial", "Follow Up"}
States     == {"Ohio", "Texas", ""}

Sam    == <<"S", "a", "m">>
SamPad == <<" ", "s", "a", "m", " ">>
Ann    == <<"A", "n", "n">>
Names  == {Sam, SamPad, Ann}

\* String.prototype.toLowerCase on one character
UpperCaseLetters == <<"A", "B", "C", "D", "E", "F", "G", "H", "I", "J", "K", "L", "M", "N", "O", "P", "Q", "R", "S", "T", "U", "V", "W", "X", "Y", "Z">>
LowerCaseLetters == <<"a", "b", "c", "d", "e", "f", "g", "h", "i", "j", "k", "l", "m", "n", "o", "p", "q", "r", "s", "t", "u", "v", "w", "x", "y", "z">>

LowerChar(c) ==
  IF \E k \in 1..26 : UpperCaseLetters[k] = c
  THEN LowerCaseLetters[CHOOSE k \in 1..26 : UpperCaseLetters[k] = c]
  ELSE c

toLowerCase(s) == [i \in 1..Len(s) |-> LowerChar(s[i])]

RECURSIVE TrimStart(_)
TrimStart(s) ==
  IF s # <<>> /\ Head(s) = " " THEN TrimStart(Tail(s)) ELSE s

RECURSIVE TrimEnd(_)
TrimEnd(s) ==
  IF s # <<>> /\ s[Len(s)] = " " THEN TrimEnd(SubSeq(s, 1, Len(s) - 1)) ELSE s

\* String.prototype.trim
trim(s) == TrimEnd(TrimStart(s))

\* name.toLowerCase().trim(), tabulated once for the names of the model
LowerNames == [n \in Names |-> trim(toLowerCase(n))]

\* const lowerName = name.toLowerCase().trim()
lowerName(name) == LowerNames[name]

\* property read e.k on an object
Get(e, k) == IF k \in DOMAIN e THEN e[k] ELSE Undefined

\* JavaScript truthiness of a string-or-undefined value
Truthy(v) == v # Undefined /\ v # ""

\* ------------------------------------------------------ the match predicates
\* The scoped callback with the visit type compared exactly, as the
\* callback of toggleExcluded compares it
ScopedMatchExactVisit(e, name, state, program, visitType) ==
  IF e = Null THEN TypeError
  ELSE IF Get(e, "program") # program THEN "false"
  ELSE IF Get(e, "state") # state THEN "false"
  ELSE IF "user" \notin DOMAIN e THEN TypeError
  ELSE IF lowerName(e.user) # lowerName(name) THEN "false"
  ELSE IF Get(e, "visitType") = visitType THEN "true"
  ELSE "false"

\* The callback of localOverrides.find / serverExclusions.some in a scoped
\* isExcluded query.  && evaluates left to right and stops at the first
\* false conjunct; e.program on null and undefined.toLowerCase() throw.
ScopedMatch(e, name, state, program, visitType) ==
  IF e = Null THEN TypeError
  ELSE IF Get(e, "program") # program THEN "false"
  ELSE IF Get(e, "state") # state THEN "false"
  ELSE IF "user" \notin DOMAIN e THEN TypeError
  ELSE IF lowerName(e.user) # lowerName(name) THEN "false"
  ELSE IF   ~Truthy(visitType) \/ ~Truthy(Get(e, "visitType"))
         \/ Get(e, "visitType") = visitType THEN "true"
  ELSE "false"

\* ExactMatch with the stored user left as written (e.user === lowerName)
ExactMatchRawUser(e, name, state, program, visitType) ==
  IF e = Null THEN TypeError
  ELSE IF Get(e, "program") # program THEN "false"
  ELSE IF Get(e, "state") # state THEN "false"
  ELSE IF "user" \notin DOMAIN e THEN TypeError
  ELSE IF e.user # lowerName(name) THEN "false"
  ELSE IF Get(e, "visitType") = visitType THEN "true"
  ELSE "false"

\* The callback of prev.findIndex in toggleExcluded: exact visit type.
ExactMatch(e, name, state, program, visitType) ==
  IF e = Null THEN TypeError
  ELSE IF Get(e, "program") # program THEN "false"
  ELSE IF Get(e, "state") # state THEN "false"
  ELSE IF "user" \notin DOMAIN e THEN TypeError
  ELSE IF lowerName(e.user) # lowerName(name) THEN "false"
  ELSE IF Get(e, "visitType") = visitType THEN "true"
  ELSE "false"

\* GlobalMatch with the stored user left as written (e.user === lowerName)
GlobalMatchRawUser(e, name) ==
  IF e = Null THEN TypeError
  ELSE IF "user" \notin DOMAIN e THEN TypeError
  ELSE IF e.user = lowerName(name) THEN "true"
  ELSE "false"

\* The callback of .some in a global isExcluded query.
GlobalMatch(e, name) ==
  IF e = Null THEN TypeError
  ELSE IF "user" \notin DOMAIN e THEN TypeError
  ELSE IF lowerName(e.user) = lowerName(name) THEN "true"
  ELSE "false"

Match(mode, e, name, state, program, visitType) ==
  CASE mode = "scoped" -> ScopedMatch(e, name, state, program, visitType)
    [] mode = "exact"  -> ExactMatch(e, name, state, program, visitType)
    [] OTHER           -> GlobalMatch(e, name)

\* Array.prototype.findIndex / find / some: scan from index i, stop at the
\* first element whose callback returns true.  The result is the 1-based
\* index, 0 when no element matches, -1 when a callback throws.
RECURSIVE findIndex(_, _, _, _, _, _, _)
findIndex(list, i, mode, name, state, program, visitType) ==
  IF i > Len(list) THEN 0
  ELSE LET r == Match(mode, list[i], name, state, program, visitType)
       IN  IF r = TypeError THEN -1
           ELSE IF r = "true" THEN i
           ELSE findIndex(list, i + 1, mode, name, state, program, visitType)

\* ------------------------------------------------------------- isExcluded
\* isExcluded(name, state?, program?, visitType?) evaluated on a base
\* ExclusionsData and an override list.
isExcludedOn(server, overrides, name, state, program, visitType) ==
  IF ~Truthy(state) \/ ~Truthy(program)
  THEN LET serverExcluded ==
             findIndex(server.stateExclusions, 1, "global",
                       name, state, program, visitType)
           localExcluded ==
             findIndex(overrides, 1, "global", name, state, program, visitType)
       IN  IF serverExcluded = -1 \/ localExcluded = -1 THEN TypeError
           ELSE IF serverExcluded > 0 \/ localExcluded > 0 THEN "true"
           ELSE "false"
  ELSE LET localOverride ==
             findIndex(overrides, 1, "scoped", name, state, program, visitType)
           serverExcluded ==
             findIndex(server.stateExclusions, 1, "scoped",
                       name, state, program, visitType)
       IN  IF localOverride = -1 THEN TypeError
           ELSE IF localOverride > 0 THEN "true"
           ELSE IF serverExcluded = -1 THEN TypeError
           ELSE IF serverExcluded > 0 THEN "true"
           ELSE "false"

\* --------------------------------------------------------- toggleExcluded
RemoveAt(list, k) ==
  [i \in 1..(Len(list) - 1) |-> IF i < k THEN list[i] ELSE list[i + 1]]

\* toggleExcluded's findIndex callback throws on this list
toggleThrows(prev, name, state, program, visitType) ==
  findIndex(prev, 1, "exact", name, state, program, visitType) = -1

\* toggleExcluded looking its entry up with the compatible-visit-type
\* match of isExcluded instead of the exact one
toggleExcludedWildcard(prev, name, state, program, visitType) ==
  LET existingIndex ==
        findIndex(prev, 1, "scoped", name, state, program, visitType)
  IN  IF existingIndex = -1 THEN prev
      ELSE IF existingIndex > 0 THEN RemoveAt(prev, existingIndex)
      ELSE Append(prev, [program |-> program, state |-> state,
                         user |-> name, visitType |-> visitType])

\* toggleExcluded looking its entry up by the name as written
\* (e.user === name) instead of the lower-cased trimmed name
toggleExcludedRawName(prev, name, state, program, visitType) ==
  LET existing == {k \in 1..Len(prev) :
                     /\ Get(prev[k], "user") = name
                     /\ Get(prev[k], "state") = state
                     /\ Get(prev[k], "program") = program
                     /\ Get(prev[k], "visitType") = visitType}
  IN  IF existing # {}
        THEN RemoveAt(prev, CHOOSE k \in existing :
                              \A j \in existing : k <= j)
        ELSE Append(prev, [program |-> program, state |-> state,
                           user |-> name, visitType |-> visitType])

\* The updater passed to setLocalOverrides: the next override list.  When
\* the findIndex callback throws no new list is produced (prev stays).
toggleExcludedOn(prev, name, state, program, visitType) ==
  LET existingIndex ==
        findIndex(prev, 1, "exact", name, state, program, visitType)
  IN  IF existingIndex = -1 THEN prev
      ELSE IF existingIndex > 0 THEN RemoveAt(prev, existingIndex)
      ELSE Append(prev, [program |-> program, state |-> state,
                         user |-> name, visitType |-> visitType])

\* ------------------------------------------------------------------ counts
\* The filter callback of getExcludedCountForState: it reads e.program,
\* which throws on null, and never reads e.user.
StateCountMatch(e, state, program, visitType) ==
  IF e = Null THEN TypeError
  ELSE IF   Get(e, "program") = program /\ Get(e, "state") = state
         /\ (  ~Truthy(visitType) \/ ~Truthy(Get(e, "visitType"))
             \/ Get(e, "visitType") = visitType) THEN "true"
  ELSE "false"

\* The filter callback of getTotalExcludedCount.
TotalCountMatch(e, program) ==
  IF e = Null THEN TypeError
  ELSE IF Get(e, "program") = program THEN "true"
  ELSE "false"

CountMatch(mode, e, state, program, visitType) ==
  IF mode = "state" THEN StateCountMatch(e, state, program, visitType)
  ELSE TotalCountMatch(e, program)

\* Array.prototype.filter(...).length; -1 when a callback throws.
RECURSIVE filterLength(_, _, _, _, _, _)
filterLength(list, i, mode, state, program, visitType) ==
  IF i > Len(list) THEN 0
  ELSE LET r    == CountMatch(mode, list[i], state, program, visitType)
           rest == filterLength(list, i + 1, mode, state, program, visitType)
       IN  IF r = TypeError \/ rest = -1 THEN -1
           ELSE IF r = "true" THEN 1 + rest
           ELSE rest

\* getExcludedCountForState(state, program, visitType?); -1 when it throws.
getExcludedCountForStateOn(server, overrides, state, program, visitType) ==
  LET serverCount ==
        filterLength(server.stateExclusions, 1, "state",
                     state, program, visitType)
      localCount ==
        filterLength(overrides, 1, "state", state, program, visitType)
  IN  IF serverCount = -1 \/ localCount = -1 THEN -1
      ELSE serverCount + localCount

\* getTotalExcludedCount counting each user once: a record of the base list
\* whose user also has an override entry of the program is not counted
getTotalExcludedCountDeduped(server, overrides, program) ==
  LET localCount ==
        filterLength(overrides, 1, "total", Undefined, program, Undefined)
      serverOnly ==
        { k \in 1..Len(server.stateExclusions) :
            /\ server.stateExclusions[k].program = program
            /\ ~\E m \in 1..Len(overrides) :
                  /\ overrides[m].program = program
                  /\ lowerName(overrides[m].user)
                       = lowerName(server.stateExclusions[k].user) }
  IN  IF localCount = -1 THEN -1 ELSE Cardinality(serverOnly) + localCount

\* getTotalExcludedCount(program); -1 when it throws.
getTotalExcludedCountOn(server, overrides, program) ==
  LET serverCount ==
        filterLength(server.stateExclusions, 1, "total",
                     Undefined, program, Undefined)
      localCount ==
        filterLength(overrides, 1, "total", Undefined, program, Undefined)
  IN  IF serverCount = -1 \/ localCount = -1 THEN -1
      ELSE serverCount + localCount

\* ------------------------------------------------------------ persistence
\* A serialization that writes the three fields of the older StateExclusion
\* shape only (program, state, user)
StringifyItemLegacy(e) ==
  IF e = Null THEN Null
  ELSE [k \in DOMAIN e \cap {"program", "state", "user"} |-> e[k]]

\* JSON.stringify of one element: own keys whose value is undefined are
\* left out; null stays null.
StringifyItem(e) ==
  IF e = Null THEN Null
  ELSE [k \in {j \in DOMAIN e : e[j] # Undefined} |-> e[k]]

\* JSON.stringify(localOverrides): the text written to localStorage.
JSONstringify(list) ==
  [kind |-> "json",
   value |-> [type |-> "array",
              items |-> [i \in 1..Len(list) |-> StringifyItem(list[i])]]]

\* What localStorage.getItem can return at session start.
Absent     == [kind |-> "absent"]     \* null: the key was never written
EmptyText  == [kind |-> "empty"]      \* the empty string
Garbage    == [kind |-> "garbage"]    \* text that is not JSON
JsonObject == [kind |-> "json", value |-> [type |-> "object"]]

\* Records as an earlier session of the hook wrote them: JSON.stringify
\* left visitType out of the first, which was toggled without visit type.
PersistedBroad    == [program |-> "HRT", state |-> "Ohio", user |-> Sam]
PersistedFollowUp == [program |-> "HRT", state |-> "Ohio", user |-> SamPad,
                      visitType |-> "Follow Up"]

\* An element that is no StateExclusion record: it has no user.
NoUser == [program |-> "HRT", state |-> "Ohio"]

JsonArray(items) ==
  [kind |-> "json", value |-> [type |-> "array", items |-> items]]

\* localStorage at the first mount: never written, unusable as a list, or a
\* list an earlier session of the hook wrote.
InitialStores ==
  { Absent, EmptyText, Garbage, JsonObject,
    JsonArray(<<>>), JsonArray(<<PersistedBroad>>),
    JsonArray(<<PersistedFollowUp>>) }

\* localStorage edited from outside the hook: lists whose elements are not
\* all StateExclusion records, and a list with the same record twice.
CorruptStores ==
  { JsonArray(<<Null>>), JsonArray(<<NoUser>>),
    JsonArray(<<PersistedBroad, Null>>),
    JsonArray(<<PersistedBroad, PersistedBroad>>) }

\* JSON.parse(stored) returns an array (Array.isArray(parsed)).  An absent
\* key and the empty string fail `if (stored)`; JSON.parse throws a
\* SyntaxError on Garbage, which the catch swallows.
ParsesToArray(text) ==
  /\ text.kind = "json"
  /\ text.value.type = "array"

\* JSON.parse of a stored array: the parsed elements.
JSONparse(text) == text.value.items

\* ----------------------------------------------------------- base data
\* The ExclusionsData handed to the hook by the server component.
BaseOptions ==
  { [excludedUsers |-> <<>>, stateExclusions |-> <<>>],
    [excludedUsers |-> <<Ann>>,
     stateExclusions |-> << [program |-> "HRT", state |-> "Ohio",
                             user |-> Sam],
                            [program |-> "TRT", state |-> "Ohio",
                             user |-> SamPad, visitType |-> "Follow Up"] >>] }

\* Arguments of a call
QueryStates   == States \cup {Undefined}
QueryPrograms == Programs \cup {Undefined}
QueryVisits   == VisitTypes \cup {Undefined}

\* The calls the user interface makes: (name, state, program, visitType)
ToggleArgs ==
  { <<Sam, "Ohio", "HRT", "Initial">>,
    <<SamPad, "Ohio", "HRT", "Initial">>,
    <<Sam, "Ohio", "HRT", Undefined>>,
    <<Ann, "Texas", "TRT", "Follow Up">>,
    <<Sam, "", "HRT", "Initial">> }

QueryArgs == Names \X QueryStates \X QueryPrograms \X QueryVisits

\* The isExcluded calls the views make while rendering: one per pool user,
\* scoped to the pool, and the unscoped call of the reports view.
ViewQueries ==
  { <<Sam, "Ohio", "HRT", "Initial">>,
    <<Ann, "Texas", "TRT", Undefined>>,
    <<Sam, Undefined, Undefined, Undefined>> }

\* ------------------------------------------------------------- CSV parser
\* Strings are sequences of one-character strings (as the user names are).
\* The legend and placeholder texts of shouldIgnoreHeader and of the cell
\* filter, and the two visit types.
TextUnnamed     == <<"u", "n", "n", "a", "m", "e", "d">>
TextKey         == <<"k", "e", "y">>
TextPleaseAdd   == <<"p", "l", "e", "a", "s", "e", " ", "a", "d", "d">>
TextPending     == <<"p", "e", "n", "d", "i", "n", "g">>
TextProviderHas == <<"p", "r", "o", "v", "i", "d", "e", "r", " ", "h", "a", "s">>
TextClosed      == <<"c", "l", "o", "s", "e", "d">>
TextBackUp      == <<"b", "a", "c", "k", "-", "u", "p">>
TextLicense     == <<"l", "i", "c", "e", "n", "s", "e">>
TextFollow      == <<"f", "o", "l", "l", "o", "w">>
VisitInitial    == <<"I", "n", "i", "t", "i", "a", "l">>
VisitFollowUp   == <<"F", "o", "l", "l", "o", "w", " ", "U", "p">>

\* String.prototype.startsWith
startsWith(s, prefix) ==
  Len(s) >= Len(prefix) /\ SubSeq(s, 1, Len(prefix)) = prefix

\* String.prototype.includes
includes(s, part) ==
  \E k \in 0..(Len(s) - Len(part)) : SubSeq(s, k + 1, k + Len(part)) = part

\* s.replace(/\s+/g, " "): every run of white space becomes one space
RECURSIVE CollapseSpaces(_)
CollapseSpaces(s) ==
  IF s = <<>> THEN <<>>
  ELSE IF Head(s) = " " THEN <<" ">> \o CollapseSpaces(TrimStart(Tail(s)))
  ELSE <<Head(s)>> \o CollapseSpaces(Tail(s))

\* s.replace(/\s*\(.*\)\s*$/g, ""): when s, trailing white space aside,
\* ends with ")" and has a "(" before it, the text from the first "(" on
\* and the white space before it are removed.
StripParenthetical(s) ==
  LET body  == TrimEnd(s)
      opens == {k \in 1..Len(body) : body[k] = "("}
  IN  IF body # <<>> /\ body[Len(body)] = ")" /\ opens # {}
      THEN LET first == CHOOSE k \in opens : \A m \in opens : k <= m
           IN  TrimEnd(SubSeq(body, 1, first - 1))
      ELSE s

\* String.prototype.split(sep) for a one-character separator
RECURSIVE split(_, _)
split(s, sep) ==
  IF \A k \in 1..Len(s) : s[k] # sep THEN <<s>>
  ELSE LET at == CHOOSE k \in 1..Len(s) :
                   s[k] = sep /\ \A m \in 1..(k - 1) : s[m] # sep
       IN  <<SubSeq(s, 1, at - 1)>> \o split(SubSeq(s, at + 1, Len(s)), sep)

\* Collation weight of a character in localeCompare: white space and
\* punctuation sort before letters, letters sort alphabetically whatever
\* their case.
PrimaryWeight(c) ==
  LET lower == LowerChar(c)
  IN  IF \E k \in 1..26 : LowerCaseLetters[k] = lower
      THEN CHOOSE k \in 1..26 : LowerCaseLetters[k] = lower
      ELSE 0

RECURSIVE ComparePrimary(_, _)
ComparePrimary(s, t) ==
  IF s = <<>> /\ t = <<>> THEN 0
  ELSE IF s = <<>> THEN -1
  ELSE IF t = <<>> THEN 1
  ELSE IF Head(s) = Head(t) THEN ComparePrimary(Tail(s), Tail(t))
  ELSE LET ws == PrimaryWeight(Head(s))
           wt == PrimaryWeight(Head(t))
       IN  IF ws < wt THEN -1
           ELSE IF ws > wt THEN 1
           ELSE ComparePrimary(Tail(s), Tail(t))

\* Case decides between strings with equal letters: lower case first.
RECURSIVE CompareCase(_, _)
CompareCase(s, t) ==
  IF s = <<>> \/ t = <<>> THEN 0
  ELSE IF Head(s) = Head(t) THEN CompareCase(Tail(s), Tail(t))
  ELSE IF LowerChar(Head(s)) = Head(s) THEN -1
  ELSE 1

\* String.prototype.localeCompare: -1, 0 or 1
localeCompare(s, t) ==
  LET primary == ComparePrimary(s, t)
  IN  IF primary # 0 THEN primary ELSE CompareCase(s, t)

\* normalizeUserName(name): trim and collapse white space; "" for ""
normalizeUserName(name) ==
  IF name = <<>> THEN <<>> ELSE CollapseSpaces(trim(name))

\* isValidUser(name)
isValidUser(name) == Len(normalizeUserName(name)) > 0

\* A user list passed on as collected, repeats included
dedupeUsersIdentity(users) == users

\* A de-duplication that keeps the last occurrence of each string
RECURSIVE dedupeUsersKeepLast(_)
dedupeUsersKeepLast(users) ==
  IF users = <<>> THEN <<>>
  ELSE LET rest == dedupeUsersKeepLast(Tail(users))
       IN  IF \E k \in 1..Len(rest) : rest[k] = Head(users)
           THEN rest ELSE <<Head(users)>> \o rest

\* dedupeUsers(users): [...new Set(users)] keeps the first occurrence of
\* each string, in insertion order
RECURSIVE dedupeUsers(_)
dedupeUsers(users) ==
  IF users = <<>> THEN <<>>
  ELSE LET front == dedupeUsers(SubSeq(users, 1, Len(users) - 1))
           last  == users[Len(users)]
       IN  IF \E k \in 1..Len(front) : front[k] = last
           THEN front ELSE Append(front, last)

\* shouldIgnoreHeader(header)
shouldIgnoreHeader(header) ==
  IF header = <<>> THEN TRUE
  ELSE LET trimmed == toLowerCase(trim(header))
       IN  \/ trimmed = <<>>
           \/ startsWith(trimmed, TextUnnamed)
           \/ trimmed = TextKey
           \/ includes(trimmed, TextPleaseAdd)
           \/ includes(trimmed, TextPending)
           \/ includes(trimmed, TextProviderHas)

\* getVisitType(label)
getVisitType(label) ==
  IF includes(trim(toLowerCase(label)), TextFollow)
  THEN VisitFollowUp ELSE VisitInitial

\* A cell filter that knows the legend texts only as whole cells
IsSentinelExactOnly(lower) ==
  lower \in { TextClosed, TextPleaseAdd, TextKey, TextBackUp, TextPending,
              TextProviderHas, TextLicense }

\* The cell filter of the data rows, on the lower-cased normalized cell
IsSentinel(lower) ==
  \/ lower = TextClosed
  \/ includes(lower, TextPleaseAdd)
  \/ lower = TextKey
  \/ lower = TextBackUp
  \/ includes(lower, TextPending)
  \/ includes(lower, TextProviderHas)
  \/ includes(lower, TextLicense)

\* The state name of a header that is kept
CleanStateName(trimmed) ==
  trim(CollapseSpaces(StripParenthetical(trimmed)))

\* An index a column map has no entry for
Unmapped == [mapped |-> FALSE, state |-> <<>>, visitType |-> <<>>]

\* A column map that gives a blank header column no entry (only the
\* columns with a state header of their own are read)
RECURSIVE BuildColumnMapNoInherit(_, _, _, _)
BuildColumnMapNoInherit(headerRow, visitTypeRow, index, lastValidState) ==
  IF index > Len(headerRow) THEN <<>>
  ELSE LET trimmed == trim(headerRow[index])
           visitTypeLabel == IF index <= Len(visitTypeRow)
                               THEN visitTypeRow[index] ELSE <<>>
           visitType == getVisitType(visitTypeLabel)
       IN  IF ~shouldIgnoreHeader(trimmed) /\ trimmed # <<>>
           THEN <<[mapped |-> TRUE, state |-> CleanStateName(trimmed),
                   visitType |-> visitType]>>
                \o BuildColumnMapNoInherit(headerRow, visitTypeRow, index + 1,
                                           CleanStateName(trimmed))
           ELSE <<Unmapped>>
                \o BuildColumnMapNoInherit(headerRow, visitTypeRow, index + 1,
                                           lastValidState)

\* A column map that gives every rejected header, blank or not, the state
\* of the last kept header before it
RECURSIVE BuildColumnMapRejectedAsBlank(_, _, _, _)
BuildColumnMapRejectedAsBlank(headerRow, visitTypeRow, index, lastValidState) ==
  IF index > Len(headerRow) THEN <<>>
  ELSE LET trimmed == trim(headerRow[index])
           visitTypeLabel == IF index <= Len(visitTypeRow)
                               THEN visitTypeRow[index] ELSE <<>>
           visitType == getVisitType(visitTypeLabel)
       IN  IF ~shouldIgnoreHeader(trimmed) /\ trimmed # <<>>
           THEN <<[mapped |-> TRUE, state |-> CleanStateName(trimmed),
                   visitType |-> visitType]>>
                \o BuildColumnMapRejectedAsBlank(headerRow, visitTypeRow,
                                                 index + 1,
                                                 CleanStateName(trimmed))
           ELSE IF lastValidState # <<>>
           THEN <<[mapped |-> TRUE, state |-> lastValidState,
                   visitType |-> visitType]>>
                \o BuildColumnMapRejectedAsBlank(headerRow, visitTypeRow,
                                                 index + 1, lastValidState)
           ELSE <<Unmapped>>
                \o BuildColumnMapRejectedAsBlank(headerRow, visitTypeRow,
                                                 index + 1, lastValidState)

\* headerRow.forEach from column index on: the entries of columnMap for the
\* columns index..Len(headerRow), lastValidState being the state of the
\* last kept header before index.
RECURSIVE BuildColumnMap(_, _, _, _)
BuildColumnMap(headerRow, visitTypeRow, index, lastValidState) ==
  IF index > Len(headerRow) THEN <<>>
  ELSE LET trimmed == trim(headerRow[index])
           visitTypeLabel == IF index <= Len(visitTypeRow)
                               THEN visitTypeRow[index] ELSE <<>>
           visitType == getVisitType(visitTypeLabel)
       IN  IF ~shouldIgnoreHeader(trimmed) /\ trimmed # <<>>
           THEN <<[mapped |-> TRUE, state |-> CleanStateName(trimmed),
                   visitType |-> visitType]>>
                \o BuildColumnMap(headerRow, visitTypeRow, index + 1,
                                  CleanStateName(trimmed))
           ELSE IF trimmed = <<>> /\ lastValidState # <<>>
           THEN <<[mapped |-> TRUE, state |-> lastValidState,
                   visitType |-> visitType]>>
                \o BuildColumnMap(headerRow, visitTypeRow, index + 1,
                                  lastValidState)
           ELSE <<Unmapped>>
                \o BuildColumnMap(headerRow, visitTypeRow, index + 1,
                                  lastValidState)

\* poolKey(state, visitType)
poolKey(state, visitType) == state \o <<"|">> \o visitType

\* stateUsersMap.get(key).push(user), the entry being created when absent;
\* the Map keeps its keys in insertion order
PushUser(usersMap, key, user) ==
  IF \E k \in 1..Len(usersMap) : usersMap[k].key = key
  THEN [k \in 1..Len(usersMap) |->
          IF usersMap[k].key = key
          THEN [key |-> key, users |-> Append(usersMap[k].users, user)]
          ELSE usersMap[k]]
  ELSE Append(usersMap, [key |-> key, users |-> <<user>>])

\* The body of columnMap.forEach for one column of one data row
ProcessCell(usersMap, row, colIndex, columnMap) ==
  IF ~columnMap[colIndex].mapped THEN usersMap
  ELSE IF colIndex > Len(row) THEN usersMap
  ELSE LET normalized == normalizeUserName(row[colIndex])
       IN  IF ~isValidUser(normalized) THEN usersMap
           ELSE IF IsSentinel(toLowerCase(normalized)) THEN usersMap
           ELSE PushUser(usersMap,
                         poolKey(columnMap[colIndex].state,
                                 columnMap[colIndex].visitType),
                         normalized)

\* columnMap.forEach over one data row, from column colIndex on
RECURSIVE ProcessRow(_, _, _, _)
ProcessRow(usersMap, row, colIndex, columnMap) ==
  IF colIndex > Len(columnMap) THEN usersMap
  ELSE ProcessRow(ProcessCell(usersMap, row, colIndex, columnMap),
                  row, colIndex + 1, columnMap)

\* dataRows.forEach from row r on; an empty row is skipped
RECURSIVE ProcessRows(_, _, _, _)
ProcessRows(usersMap, dataRows, r, columnMap) ==
  IF r > Len(dataRows) THEN usersMap
  ELSE ProcessRows(IF Len(dataRows[r]) = 0 THEN usersMap
                   ELSE ProcessRow(usersMap, dataRows[r], 1, columnMap),
                   dataRows, r + 1, columnMap)

\* stateUsersMap.forEach from entry k on: a pool per key whose de-duplicated
\* user list is not empty; state and visit type are the first two parts of
\* key.split("|")
RECURSIVE EmitPools(_, _, _)
EmitPools(usersMap, k, forProgram) ==
  IF k > Len(usersMap) THEN <<>>
  ELSE LET parts        == split(usersMap[k].key, "|")
           dedupedUsers == dedupeUsers(usersMap[k].users)
       IN  (IF Len(dedupedUsers) > 0
            THEN <<[program |-> forProgram, state |-> parts[1],
                    visitType |-> parts[2], users |-> dedupedUsers]>>
            ELSE <<>>)
           \o EmitPools(usersMap, k + 1, forProgram)

\* A comparator that looks at the visit type only
ComparePoolsByVisitType(a, b) ==
  IF a.visitType = VisitInitial THEN -1 ELSE 1

\* The comparator of resourcePools.sort
ComparePools(a, b) ==
  LET stateCompare == localeCompare(a.state, b.state)
  IN  IF stateCompare # 0 THEN stateCompare
      ELSE IF a.visitType = VisitInitial THEN -1 ELSE 1

\* The comparator orders the pools consistently: of two different pools one
\* is before the other, the other after it
ConsistentComparator(pools) ==
  \A k, m \in 1..Len(pools) :
    k < m => ComparePools(pools[k], pools[m]) = -ComparePools(pools[m], pools[k])

\* Array.prototype.sort(comparator): the arrangements of pools it can
\* return.  With a consistent comparator that is the arrangement in which
\* no pool is after a pool it compares before; otherwise the order is
\* implementation-defined.
SortOutcomes(pools) ==
  LET positions == 1..Len(pools)
      permutations ==
        { g \in [positions -> positions] :
            \A k, m \in positions : k # m => g[k] # g[m] }
      compared ==
        [k \in positions |-> [m \in positions |->
           IF k = m THEN 0 ELSE ComparePools(pools[k], pools[m])]]
      arrange(g) == [k \in positions |-> pools[g[k]]]
  IN  IF Len(pools) < 2 THEN {pools}
      ELSE IF ConsistentComparator(pools)
      THEN { arrange(g) :
               g \in { h \in permutations :
                         \A k \in 1..(Len(pools) - 1) :
                           compared[h[k]][h[k + 1]] < 0 } }
      ELSE { arrange(g) : g \in permutations }

\* A row-count check that returns early for a table without rows only
TooFewRowsEmptyOnly(rows) == Len(rows) = 0

\* rows.length < 3
TooFewRows(rows) == Len(rows) < MinRows

\* The statements of parseResourcePoolCsv after the row-count check raise a
\* TypeError when they read row 0 or row 1 of a table that has none.
parseRaises(rows) ==
  ~TooFewRows(rows) /\ (Len(rows) < 1 \/ (Len(rows) < 2 /\ Len(rows[1]) > 0))

\* The pools before sorting
UnsortedPools(rows, forProgram) ==
  IF TooFewRows(rows) \/ parseRaises(rows) THEN <<>>
  ELSE LET columnMap == BuildColumnMap(rows[1], rows[2], 1, <<>>)
           dataRows  == SubSeq(rows, 3, Len(rows))
       IN  EmitPools(ProcessRows(<<>>, dataRows, 1, columnMap), 1, forProgram)

\* parseResourcePoolCsv(csvContent, program), given the rows Papa.parse
\* recovered from csvContent: the lists of pools it can return
parseResourcePoolCsv(rows, forProgram) ==
  SortOutcomes(UnsortedPools(rows, forProgram))

\* -------------------------------------------------------- server loaders
\* A JSON value: its type and, for an array, its items.  AbsentField is
\* what reading a key the object lacks gives (undefined).
JsonValue(type, items) == [type |-> type, items |-> items]
AbsentField == JsonValue("undefined", <<>>)
EmptyArray  == JsonValue("array", <<>>)

\* The value of `x || []`: x, whatever its type, unless it is missing
TruthyOrEmpty(x) ==
  IF x.type \in {"undefined", "null"} THEN EmptyArray ELSE x

\* Array.isArray(x) ? x : []
ArrayOrEmpty(x) == IF x.type = "array" THEN x ELSE EmptyArray

\* fs.readFileSync throws (no file) or JSON.parse throws (not JSON)
JSONparseRaises(file) == file.kind \in {"missing", "garbage"}

\* data.excludedUsers raises a TypeError when data is null
FieldReadRaises(file) == file.kind = "json" /\ file.data.type = "null"

\* data.excludedUsers / data.stateExclusions; undefined on a value that is
\* no object or lacks the key
ReadField(file, field) ==
  IF file.data.type = "object" THEN file.data.fields[field] ELSE AbsentField

\* loadExclusions(): the try block returns the two fields, each replaced by
\* [] unless it is an array; the catch returns two empty lists
loadExclusions(file) ==
  IF JSONparseRaises(file) \/ FieldReadRaises(file)
  THEN [excludedUsers |-> EmptyArray, stateExclusions |-> EmptyArray]
  ELSE [excludedUsers   |-> ArrayOrEmpty(ReadField(file, "excludedUsers")),
        stateExclusions |-> ArrayOrEmpty(ReadField(file, "stateExclusions"))]

\* The values a field of exclusions.json is given in the model
FieldValues ==
  { AbsentField, JsonValue("null", <<>>), JsonValue("string", <<>>),
    JsonValue("object", <<>>), EmptyArray,
    JsonValue("array", <<Ann>>), JsonValue("array", <<Sam, Ann>>) }

JsonDocument(data) == [kind |-> "json", data |-> data]

JsonObjectWith(excludedUsers, stateExclusions) ==
  JsonDocument([type |-> "object", items |-> <<>>,
                fields |-> [excludedUsers   |-> excludedUsers,
                            stateExclusions |-> stateExclusions]])

\* data/exclusions.json: missing, not JSON, a JSON value that is no object,
\* or an object with any combination of field values
ExclusionFiles ==
  { [kind |-> "missing"], [kind |-> "garbage"],
    JsonDocument([type |-> "null", items |-> <<>>]),
    JsonDocument([type |-> "number", items |-> <<>>]),
    JsonDocument([type |-> "array", items |-> <<>>]) }
  \cup { JsonObjectWith(u, x) : u \in FieldValues, x \in FieldValues }

\* The exclusions.json of the runs that are about the CSV file
PlainExclusionsFile == JsonObjectWith(EmptyArray, EmptyArray)

\* ------------------------------------------------------------ CSV inputs
CellOhio       == <<"O", "h", "i", "o">>
CellUtah       == <<"U", "t", "a", "h">>
CellUtahLower  == <<" ", "u", "t", "a", "h", " ">>
CellOhioNote   == <<"O", "h", "i", "o", " ", " ", "(", "n", "o", " ", "m", "a", "r", "k", "e", "t", "i", "n", "g", ")">>
CellBlank      == <<>>
CellSpaces     == <<" ", " ">>
CellUnnamed    == <<"U", "n", "n", "a", "m", "e", "d", ":", " ", "1">>
CellKeyLegend  == <<"K", "E", "Y">>
CellPendingLegend == <<"P", "e", "n", "d", "i", "n", "g", " ", "s", "t", "a", "t", "e", "s">>
CellInitial    == <<"I", "n", "i", "t", "i", "a", "l">>
CellFollowUp   == <<"F", "o", "l", "l", "o", "w", " ", "U", "p">>
CellFollowLower == <<" ", "f", "o", "l", "l", "o", "w", " ", "u", "p">>
CellAl         == <<"A", "l">>
CellAlPadded   == <<" ", "A", "l", " ">>
CellAlLower    == <<"a", "l">>
CellAlB        == <<"A", "l", " ", " ", " ", "B">>
CellBo         == <<"B", "o">>
CellClosed     == <<"C", "l", "o", "s", "e", "d">>
CellKeyPadded  == <<" ", "K", "E", "Y", " ">>
CellBackUp     == <<"B", "a", "c", "k", "-", "U", "p">>
CellNoLicense  == <<"N", "o", " ", "L", "i", "c", "e", "n", "s", "e">>
CellPendingBo  == <<"B", "o", " ", "p", "e", "n", "d", "i", "n", "g">>

\* Row 0 of the table: the state headers
HeaderRows ==
  { <<CellOhio, CellBlank, CellUtah>>,
    <<CellBlank, CellOhio, CellSpaces>>,
    <<CellUtah, CellUnnamed, CellBlank>>,
    <<CellUtah, CellOhioNote, CellOhio>>,
    <<CellUtahLower, CellUtah, CellKeyLegend>>,
    <<CellPendingLegend, CellBlank, CellOhio>>,
    <<CellOhio>> }

\* Row 1 of the table: the visit-type labels
VisitTypeRows ==
  { <<CellInitial, CellFollowUp, CellInitial>>,
    <<CellFollowLower, CellInitial, CellFollowUp>>,
    <<CellBlank, CellFollowUp>> }

\* A data row
DataRows ==
  { <<CellAl, CellBo, CellBo>>,
    <<CellAlPadded, CellAlLower, CellBlank>>,
    <<CellClosed, CellKeyPadded, CellBackUp>>,
    <<CellAlB, CellNoLicense, CellPendingBo>>,
    <<CellBo>>,
    <<>> }

\* Sequences of 1..n data rows
RECURSIVE DataRowSeqs(_)
DataRowSeqs(n) ==
  IF n = 0 THEN {<<>>}
  ELSE LET shorter == DataRowSeqs(n - 1)
       IN  shorter \cup { Append(rs, row) : rs \in shorter, row \in DataRows }

\* The rows Papa.parse recovers from a CSV file: nothing, a header row
\* only, the two header rows only, or both with 1..MaxDataRows data rows
CsvTables ==
  { <<>> }
  \cup { <<h>> : h \in HeaderRows }
  \cup { <<h, v>> \o rs : h \in HeaderRows, v \in VisitTypeRows,
                         rs \in DataRowSeqs(MaxDataRows) }

\* data/hrt.csv or data/trt.csv: unreadable, or readable with these rows
MissingCsv == [readable |-> FALSE, rows |-> <<>>]

CsvFiles == { MissingCsv } \cup { [readable |-> TRUE, rows |-> t] : t \in CsvTables }

\* The results of the loaders before they have run
NotLoadedPools == [status |-> "pending", pools |-> <<>>]
NotLoadedExclusions ==
  [status |-> "pending", excludedUsers |-> AbsentField,
   stateExclusions |-> AbsentField]

\* ------------------------------------------------------------------ state
VARIABLES
  serverExclusions,  \* the base ExclusionsData passed to the hook
  stored,            \* localStorage[LOCAL_STORAGE_KEY]
  localOverrides,    \* useState<StateExclusion[]>: the latest state
  isLoaded,          \* useState(false): the latest state
  rendered,          \* the state captured by the closures of the last render
  loadPending,       \* the mount effect has not run yet
  savePending,       \* the save effect is scheduled by the last render
  uncaught,          \* an error that propagated out of the hook's functions
  lastIO,            \* outcome of the last localStorage access of the session
  ioFailures,        \* localStorage accesses that threw so far
  prevList,          \* override list the previous session ended with, kept
                     \* until the new session has loaded
  prevSynced,        \* the previous session ended with its last write done
  csvFile,           \* data/hrt.csv or data/trt.csv as the server finds it
  poolProgram,       \* the program loadProgramData is called for
  resourcePools,     \* what loadProgramData returned
  exclusionsFile,    \* data/exclusions.json as the server finds it
  exclusionsData,    \* what loadExclusions returned
  tabs,              \* the hook instances of two tabs open on one origin
  keyedOverrides,    \* localOverrides of the name-keyed variant of the hook
  stateFilter        \* useState("all") of the All Users view

\* The state of the server-side loaders
serverVars == <<csvFile, poolProgram, resourcePools, exclusionsFile,
                exclusionsData>>

\* The state of the hook and of localStorage
hookVars == <<serverExclusions, stored, localOverrides, isLoaded, rendered,
              loadPending, savePending, uncaught, lastIO, ioFailures,
              prevList, prevSynced>>

\* The state of the two-tab scenario, of the name-keyed variant and of the
\* All Users view
variantVars == <<tabs, keyedOverrides, stateFilter>>

vars == <<serverExclusions, stored, localOverrides, isLoaded, rendered,
          loadPending, savePending, uncaught, lastIO, ioFailures,
          prevList, prevSynced, csvFile, poolProgram, resourcePools,
          exclusionsFile, exclusionsData, tabs, keyedOverrides, stateFilter>>

HookState == [localOverrides |-> localOverrides, isLoaded |-> isLoaded]

\* useState initial values and the effects scheduled by the first render
Mounted ==
  /\ serverExclusions \in BaseOptions
  /\ localOverrides = <<>>
  /\ isLoaded = FALSE
  /\ rendered = [localOverrides |-> <<>>, isLoaded |-> FALSE]
  /\ loadPending = TRUE
  /\ savePending = TRUE
  /\ uncaught = "none"
  /\ ioFailures = 0
  /\ lastIO = "none"
  /\ prevList = <<>>
  /\ prevSynced = FALSE

\* The server-side loaders are not part of a browser session
LoadersIdle ==
  /\ csvFile = MissingCsv
  /\ poolProgram = "HRT"
  /\ resourcePools = NotLoadedPools
  /\ exclusionsFile = PlainExclusionsFile
  /\ exclusionsData = NotLoadedExclusions

\* One tab is open, running the scoped variant of the hook
VariantsIdle ==
  /\ tabs = <<>>
  /\ keyedOverrides = <<>>
  /\ stateFilter = "all"

Init == Mounted /\ stored \in InitialStores /\ LoadersIdle /\ VariantsIdle

\* The first mount finds localStorage edited from outside
InitCorrupt ==
  Mounted /\ stored \in CorruptStores /\ LoadersIdle /\ VariantsIdle

\* A localStorage access succeeds (TRUE) or throws (FALSE)
Outcomes == IF ioFailures < MaxIOFailures THEN {TRUE, FALSE} ELSE {TRUE}

\* A load effect that calls setIsLoaded(true) inside its try block, after
\* the stored list was read and parsed
LoadEffectLoadedOnSuccess ==
  /\ loadPending
  /\ uncaught = "none"
  /\ \E readOk \in Outcomes :
       /\ localOverrides' = IF readOk /\ ParsesToArray(stored)
                               THEN JSONparse(stored)
                               ELSE localOverrides
       /\ isLoaded' = (readOk /\ ParsesToArray(stored))
       /\ lastIO' = IF readOk THEN "readOk" ELSE "readFail"
       /\ ioFailures' = IF readOk THEN ioFailures ELSE ioFailures + 1
  /\ loadPending' = FALSE
  /\ prevList' = <<>>
  /\ UNCHANGED <<serverVars, variantVars, serverExclusions, stored, rendered, savePending, uncaught,
                 prevSynced>>

\* The load effect (runs once, after the first render).  getItem may throw;
\* the catch swallows that and a JSON.parse error; setIsLoaded(true) runs
\* in every case.
LoadEffect ==
  /\ loadPending
  /\ uncaught = "none"
  /\ \E readOk \in Outcomes :
       /\ localOverrides' = IF readOk /\ ParsesToArray(stored)
                               THEN JSONparse(stored)
                               ELSE localOverrides
       /\ lastIO' = IF readOk THEN "readOk" ELSE "readFail"
       /\ ioFailures' = IF readOk THEN ioFailures ELSE ioFailures + 1
  /\ isLoaded' = TRUE
  /\ loadPending' = FALSE
  /\ prevList' = <<>>
  /\ UNCHANGED <<serverVars, variantVars, serverExclusions, stored, rendered, savePending, uncaught,
                 prevSynced>>

\* The save effect without its `if (isLoaded)` guard: the effect of the
\* first render writes the empty initial list
SaveEffectUnguarded ==
  /\ savePending
  /\ ~loadPending
  /\ uncaught = "none"
  /\ \E writeOk \in Outcomes :
       /\ stored' = IF writeOk
                       THEN JSONstringify(rendered.localOverrides)
                       ELSE stored
       /\ lastIO' = IF writeOk THEN "writeOk" ELSE "writeFail"
       /\ ioFailures' = IF writeOk THEN ioFailures ELSE ioFailures + 1
  /\ savePending' = FALSE
  /\ UNCHANGED <<serverVars, variantVars, serverExclusions, localOverrides, isLoaded, rendered,
                 loadPending, uncaught, prevList, prevSynced>>

\* The save effect without its try/catch: a throwing setItem propagates
SaveEffectNoCatch ==
  /\ savePending
  /\ ~loadPending
  /\ uncaught = "none"
  /\ IF rendered.isLoaded
       THEN \E writeOk \in Outcomes :
              /\ stored' = IF writeOk
                              THEN JSONstringify(rendered.localOverrides)
                              ELSE stored
              /\ lastIO' = IF writeOk THEN "writeOk" ELSE "writeFail"
              /\ ioFailures' = IF writeOk THEN ioFailures ELSE ioFailures + 1
              /\ uncaught' = IF writeOk THEN uncaught ELSE "QuotaExceededError"
       ELSE UNCHANGED <<stored, lastIO, ioFailures, uncaught>>
  /\ savePending' = FALSE
  /\ UNCHANGED <<serverVars, variantVars, serverExclusions, localOverrides, isLoaded, rendered,
                 loadPending, prevList, prevSynced>>

\* The save effect, with the isLoaded and localOverrides of the render that
\* scheduled it.  setItem may throw; the catch swallows it.
SaveEffect ==
  /\ savePending
  /\ ~loadPending
  /\ uncaught = "none"
  /\ IF rendered.isLoaded
       THEN \E writeOk \in Outcomes :
              /\ stored' = IF writeOk
                              THEN JSONstringify(rendered.localOverrides)
                              ELSE stored
              /\ lastIO' = IF writeOk THEN "writeOk" ELSE "writeFail"
              /\ ioFailures' = IF writeOk THEN ioFailures ELSE ioFailures + 1
       ELSE UNCHANGED <<stored, lastIO, ioFailures>>
  /\ savePending' = FALSE
  /\ UNCHANGED <<serverVars, variantVars, serverExclusions, localOverrides, isLoaded, rendered,
                 loadPending, uncaught, prevList, prevSynced>>

\* A re-render whose save effect depends on isLoaded only: a change of
\* localOverrides alone schedules no write
RenderSaveOnLoadOnly ==
  /\ ~loadPending
  /\ ~savePending
  /\ uncaught = "none"
  /\ rendered # HookState
  /\ rendered' = HookState
  /\ savePending' = (rendered.isLoaded # isLoaded)
  /\ UNCHANGED <<serverVars, variantVars, serverExclusions, stored, localOverrides, isLoaded,
                 loadPending, uncaught, lastIO, ioFailures,
                 prevList, prevSynced>>

\* A re-render after a state change: the closures capture the new state and
\* the save effect is scheduled, its dependencies having changed.
Render ==
  /\ ~loadPending
  /\ ~savePending
  /\ uncaught = "none"
  /\ rendered # HookState
  /\ rendered' = HookState
  /\ savePending' = TRUE
  /\ UNCHANGED <<serverVars, variantVars, serverExclusions, stored, localOverrides, isLoaded,
                 loadPending, uncaught, lastIO, ioFailures,
                 prevList, prevSynced>>

\* A toggle that edits the base list in place instead of the overrides
ToggleMutatesBase(name, state, program, visitType) ==
  /\ rendered.isLoaded
  /\ rendered = HookState
  /\ ~savePending
  /\ uncaught = "none"
  /\ ~toggleThrows(serverExclusions.stateExclusions, name, state, program,
                   visitType)
  /\ Len(toggleExcludedOn(serverExclusions.stateExclusions, name, state,
                          program, visitType)) <= MaxOverrides
  /\ serverExclusions' =
       [serverExclusions EXCEPT
          !.stateExclusions = toggleExcludedOn(@, name, state, program,
                                               visitType)]
  /\ UNCHANGED <<serverVars, variantVars, stored, localOverrides, isLoaded, rendered,
                 loadPending, savePending, uncaught, lastIO, ioFailures,
                 prevList, prevSynced>>

\* A click on an Exclude / Include button: toggleExcluded(name, state,
\* program, visitType).  The views render the buttons once isLoaded.
Toggle(name, state, program, visitType) ==
  /\ rendered.isLoaded
  /\ rendered = HookState
  /\ ~savePending
  /\ uncaught = "none"
  /\ IF toggleThrows(localOverrides, name, state, program, visitType)
       THEN /\ uncaught' = TypeError
            /\ UNCHANGED localOverrides
       ELSE /\ Len(toggleExcludedOn(localOverrides, name, state, program,
                                    visitType)) <= MaxOverrides
            /\ localOverrides' = toggleExcludedOn(localOverrides, name, state,
                                                  program, visitType)
            /\ UNCHANGED uncaught
  /\ UNCHANGED <<serverVars, variantVars, serverExclusions, stored, isLoaded, rendered, loadPending,
                 savePending, lastIO, ioFailures, prevList,
                 prevSynced>>

\* A call of isExcluded made by a view while it renders (the views call it
\* in their render bodies only, so with the closure of the latest state).
Query(name, state, program, visitType) ==
  /\ uncaught = "none"
  /\ rendered = HookState
  /\ uncaught' =
       IF isExcludedOn(serverExclusions, rendered.localOverrides,
                       name, state, program, visitType) = TypeError
       THEN TypeError ELSE uncaught
  /\ UNCHANGED <<serverVars, variantVars, serverExclusions, stored, localOverrides, isLoaded,
                 rendered, loadPending, savePending, lastIO, ioFailures,
                 prevList, prevSynced>>

\* A call of getExcludedCountForState or getTotalExcludedCount made by a
\* view while it renders.
Count(state, program, visitType) ==
  /\ uncaught = "none"
  /\ rendered = HookState
  /\ \E n \in { getExcludedCountForStateOn(serverExclusions,
                       rendered.localOverrides, state, program, visitType),
                  getTotalExcludedCountOn(serverExclusions,
                       rendered.localOverrides, program) } :
       uncaught' = IF n = -1 THEN TypeError ELSE uncaught
  /\ UNCHANGED <<serverVars, variantVars, serverExclusions, stored, localOverrides, isLoaded,
                 rendered, loadPending, savePending, lastIO, ioFailures,
                 prevList, prevSynced>>

\* The page is closed or reloaded and the hook mounts again: state starts
\* from the useState initial values, localStorage is kept.
Reload ==
  /\ prevList' = localOverrides
  /\ prevSynced' = (  isLoaded /\ rendered = HookState /\ ~savePending
                    /\ uncaught = "none" /\ lastIO = "writeOk")
  /\ localOverrides' = <<>>
  /\ isLoaded' = FALSE
  /\ rendered' = [localOverrides |-> <<>>, isLoaded |-> FALSE]
  /\ loadPending' = TRUE
  /\ savePending' = TRUE
  /\ uncaught' = "none"
  /\ lastIO' = "none"
  /\ UNCHANGED <<serverVars, variantVars, serverExclusions, stored, ioFailures>>

Next ==
  \/ LoadEffect
  \/ SaveEffect
  \/ Render
  \/ \E a \in ToggleArgs : Toggle(a[1], a[2], a[3], a[4])
  \/ \E q \in ViewQueries : Query(q[1], q[2], q[3], q[4])
  \/ \E v \in QueryVisits : Count("Ohio", "HRT", v)
  \/ Reload

Spec == Init /\ [][Next]_vars

\* The same hook started on a localStorage entry edited from outside
SpecCorrupt == InitCorrupt /\ [][Next]_vars

\* React runs the effects of a committed render and re-renders after a
\* state change
FairSpec ==
  Spec /\ WF_vars(LoadEffect) /\ WF_vars(SaveEffect) /\ WF_vars(Render)

\* ------------------------------------------------- two tabs, one origin
\* Two tabs of one browser show the viewer.  Each mounts its own instance
\* of the hook with its own React state; localStorage, and so the entry
\* under LOCAL_STORAGE_KEY, is the one of the origin.
Tabs == {1, 2}

\* useState initial values and the effects scheduled by the first render
MountedTab ==
  [localOverrides |-> <<>>, isLoaded |-> FALSE,
   rendered |-> [localOverrides |-> <<>>, isLoaded |-> FALSE],
   loadPending |-> TRUE, savePending |-> TRUE]

TabState(t) ==
  [localOverrides |-> tabs[t].localOverrides, isLoaded |-> tabs[t].isLoaded]

\* The row each tab's user clicks: (name, state, program, visitType)
TabToggleArgs ==
  [t \in Tabs |->
     IF t = 1 THEN <<Sam, "Ohio", "HRT", "Initial">>
     ELSE <<Ann, "Texas", "TRT", "Follow Up">>]

\* localStorage when the tabs are opened
TabStores == { Absent, Garbage, JsonArray(<<>>) }

TabsInit ==
  /\ Mounted
  /\ serverExclusions.stateExclusions = <<>>
  /\ LoadersIdle
  /\ stored \in TabStores
  /\ tabs = [t \in Tabs |-> MountedTab]
  /\ keyedOverrides = <<>>
  /\ stateFilter = "all"

\* The load effect of tab t
TabLoadEffect(t) ==
  /\ tabs[t].loadPending
  /\ \E readOk \in Outcomes :
       /\ tabs' = [tabs EXCEPT ![t] =
                     [@ EXCEPT !.localOverrides =
                                  IF readOk /\ ParsesToArray(stored)
                                  THEN JSONparse(stored) ELSE @,
                               !.isLoaded = TRUE,
                               !.loadPending = FALSE]]
       /\ ioFailures' = IF readOk THEN ioFailures ELSE ioFailures + 1
  /\ UNCHANGED <<serverVars, keyedOverrides, stateFilter, serverExclusions, stored,
                 localOverrides, isLoaded, rendered, loadPending,
                 savePending, uncaught, lastIO, prevList, prevSynced>>

\* The save effect of tab t, with the state of the render that scheduled it
TabSaveEffect(t) ==
  /\ tabs[t].savePending
  /\ ~tabs[t].loadPending
  /\ IF tabs[t].rendered.isLoaded
       THEN \E writeOk \in Outcomes :
              /\ stored' = IF writeOk
                              THEN JSONstringify(tabs[t].rendered.localOverrides)
                              ELSE stored
              /\ ioFailures' = IF writeOk THEN ioFailures ELSE ioFailures + 1
       ELSE UNCHANGED <<stored, ioFailures>>
  /\ tabs' = [tabs EXCEPT ![t].savePending = FALSE]
  /\ UNCHANGED <<serverVars, keyedOverrides, stateFilter, serverExclusions,
                 localOverrides, isLoaded, rendered, loadPending,
                 savePending, uncaught, lastIO, prevList, prevSynced>>

\* A re-render of tab t after a state change
TabRender(t) ==
  /\ ~tabs[t].loadPending
  /\ ~tabs[t].savePending
  /\ tabs[t].rendered # TabState(t)
  /\ tabs' = [tabs EXCEPT ![t].rendered = TabState(t),
                          ![t].savePending = TRUE]
  /\ UNCHANGED <<serverVars, keyedOverrides, stateFilter, hookVars>>

\* The user of tab t clicks the button of their row
TabToggle(t) ==
  /\ tabs[t].rendered.isLoaded
  /\ tabs[t].rendered = TabState(t)
  /\ ~tabs[t].savePending
  /\ LET a    == TabToggleArgs[t]
         next == toggleExcludedOn(tabs[t].localOverrides,
                                  a[1], a[2], a[3], a[4])
     IN  /\ Len(next) <= MaxOverrides
         /\ tabs' = [tabs EXCEPT ![t].localOverrides = next]
  /\ UNCHANGED <<serverVars, keyedOverrides, stateFilter, hookVars>>

TabsNext ==
  \E t \in Tabs :
    \/ TabLoadEffect(t)
    \/ TabSaveEffect(t)
    \/ TabRender(t)
    \/ TabToggle(t)

TabsSpec == TabsInit /\ [][TabsNext]_vars

\* ------------------------------------------- the name-keyed variant
\* The first variant of the hook (src/lib/useExclusions.ts, lines 1-132)
\* keeps localOverrides as an object from names to booleans.  The object is
\* modelled as the sequence of its entries in key order, which for names
\* is the order in which the keys were first set.
John      == <<"J", "o", "h", "n">>
JohnLower == <<"j", "o", "h", "n">>
AnnLower  == <<"a", "n", "n">>
KeyedNames == {John, JohnLower, Ann, AnnLower}

\* Object.keys(overrides).find((k) => k.toLowerCase() === lowerName): the
\* position of the first such key, 0 when there is none
RECURSIVE overrideKey(_, _, _)
overrideKey(overrides, i, name) ==
  IF i > Len(overrides) THEN 0
  ELSE IF toLowerCase(overrides[i].key) = toLowerCase(name) THEN i
  ELSE overrideKey(overrides, i + 1, name)

\* serverExclusions.excludedUsers.some((e) => e.toLowerCase() === lowerName)
InExcludedUsers(server, name) ==
  \E i \in 1..Len(server.excludedUsers) :
    toLowerCase(server.excludedUsers[i]) = toLowerCase(name)

\* isExcluded(name) of the name-keyed variant
keyedIsExcluded(server, overrides, name) ==
  LET k == overrideKey(overrides, 1, name)
  IN  IF k > 0 THEN overrides[k].value ELSE InExcludedUsers(server, name)

\* { ...prev, [name]: value }: the value of an existing key is replaced in
\* place, a new key is added last
SetKey(prev, name, value) ==
  IF \E k \in 1..Len(prev) : prev[k].key = name
  THEN [k \in 1..Len(prev) |->
          IF prev[k].key = name THEN [key |-> name, value |-> value]
          ELSE prev[k]]
  ELSE Append(prev, [key |-> name, value |-> value])

\* The updater of toggleExcluded(name) of the name-keyed variant
keyedToggleExcluded(server, prev, name) ==
  LET currentlyExcluded == keyedIsExcluded(server, prev, name)
  IN  SetKey(prev, name, ~currentlyExcluded)

KeyedInit ==
  /\ Mounted
  /\ LoadersIdle
  /\ stored = Absent
  /\ VariantsIdle

\* A click on the button of name
KeyedToggle(name) ==
  /\ keyedOverrides' = keyedToggleExcluded(serverExclusions, keyedOverrides,
                                           name)
  /\ UNCHANGED <<serverVars, hookVars, tabs, stateFilter>>

KeyedNext == \E name \in KeyedNames : KeyedToggle(name)

KeyedSpec == KeyedInit /\ [][KeyedNext]_vars

\* ------------------------------------------------------- a server request
\* The request starts with the files as they are on disk: any CSV file
\* with a plain exclusions.json, or any exclusions.json with no CSV file.
\* No browser session is running.
ServerInit ==
  /\ Mounted
  /\ VariantsIdle
  /\ serverExclusions = [excludedUsers |-> <<>>, stateExclusions |-> <<>>]
  /\ stored = Absent
  /\ poolProgram \in Programs
  /\ resourcePools = NotLoadedPools
  /\ exclusionsData = NotLoadedExclusions
  /\ \/ csvFile \in CsvFiles /\ exclusionsFile = PlainExclusionsFile
     \/ csvFile = MissingCsv /\ exclusionsFile \in ExclusionFiles

\* loadProgramData(program): the file is read and parsed inside try; the
\* catch returns [] when readFileSync or the parser throws.
LoadProgramData ==
  /\ resourcePools.status = "pending"
  /\ IF ~csvFile.readable
       THEN resourcePools' = [status |-> "read failed", pools |-> <<>>]
       ELSE IF parseRaises(csvFile.rows)
       THEN resourcePools' = [status |-> "parser raised", pools |-> <<>>]
       ELSE \E returned \in parseResourcePoolCsv(csvFile.rows, poolProgram) :
              resourcePools' = [status |-> "parsed", pools |-> returned]
  /\ UNCHANGED <<hookVars, variantVars, csvFile, poolProgram, exclusionsFile,
                 exclusionsData>>

\* loadExclusions()
LoadExclusions ==
  /\ exclusionsData.status = "pending"
  /\ exclusionsData' =
       [status |-> "returned",
        excludedUsers   |-> loadExclusions(exclusionsFile).excludedUsers,
        stateExclusions |-> loadExclusions(exclusionsFile).stateExclusions]
  /\ UNCHANGED <<hookVars, variantVars, csvFile, poolProgram, resourcePools,
                 exclusionsFile>>

\* A page calls loadProgramData(program) and loadExclusions(); neither
\* reads what the other returns
ServerNext == LoadProgramData \/ LoadExclusions

ServerSpec == ServerInit /\ [][ServerNext]_vars

\* ------------------------------------- a request on unusual state headers
\* A header that is a parenthetical annotation only, and a state name that
\* holds the separator of the pool keys
CellNoMarketing == <<"(", "n", "o", " ", "m", "a", "r", "k", "e", "t", "i", "n", "g", ")">>
CellUtahPiped   == <<"U", "t", "a", "h", "|", "N">>

AnnotatedHeaderRows ==
  { <<CellNoMarketing, CellBlank, CellOhio>>,
    <<CellUtahPiped, CellBlank, CellOhio>>,
    <<CellOhio, CellNoMarketing, CellUtahPiped>> }

AnnotatedCsvFiles ==
  { [readable |-> TRUE, rows |-> <<h, v>> \o rs] :
      h \in AnnotatedHeaderRows, v \in VisitTypeRows,
      rs \in DataRowSeqs(MaxDataRows) }

\* The request finds a CSV file with such headers
AnnotatedInit ==
  /\ Mounted
  /\ VariantsIdle
  /\ serverExclusions = [excludedUsers |-> <<>>, stateExclusions |-> <<>>]
  /\ stored = Absent
  /\ poolProgram \in Programs
  /\ resourcePools = NotLoadedPools
  /\ exclusionsData = NotLoadedExclusions
  /\ csvFile \in AnnotatedCsvFiles
  /\ exclusionsFile = PlainExclusionsFile

AnnotatedSpec == AnnotatedInit /\ [][ServerNext]_vars

\* ------------------------------------------------------ the All Users view
\* AllUsersClient is rendered for one program with the pools the server
\* component passed; the search box and the exclusion filter are left at
\* their initial values.
ViewProgram == "HRT"

ViewPools ==
  << [program |-> "HRT", state |-> "Ohio", visitType |-> "Initial",
      users |-> <<Sam, Ann>>],
     [program |-> "HRT", state |-> "Ohio", visitType |-> "Follow Up",
      users |-> <<Ann>>],
     [program |-> "HRT", state |-> "Texas", visitType |-> "Initial",
      users |-> <<Sam>>] >>

\* The text of a state name, for localeCompare
StateText == [s \in {"Ohio", "Texas"} |->
                IF s = "Ohio" THEN <<"O", "h", "i", "o">>
                ELSE <<"T", "e", "x", "a", "s">>]

\* pool.users.forEach: a row per user of the pool
PoolRows(pool) ==
  [i \in 1..Len(pool.users) |->
     [name |-> pool.users[i], state |-> pool.state,
      visitType |-> pool.visitType]]

\* resourcePools.forEach from pool k on
RECURSIVE UnsortedUsers(_, _)
UnsortedUsers(pools, k) ==
  IF k > Len(pools) THEN <<>>
  ELSE PoolRows(pools[k]) \o UnsortedUsers(pools, k + 1)

\* The comparator of allUsers.sort
CompareUsers(a, b) ==
  LET nameCompare == localeCompare(a.name, b.name)
  IN  IF nameCompare # 0 THEN nameCompare
      ELSE LET stateCompare ==
                 localeCompare(StateText[a.state], StateText[b.state])
           IN  IF stateCompare # 0 THEN stateCompare
               ELSE IF a.visitType = "Initial" THEN -1 ELSE 1

\* getAllUsers(resourcePools): the arrangements the sort can return, in
\* which no row is followed by a row it does not compare before
getAllUsers(pools) ==
  LET rows == UnsortedUsers(pools, 1)
      positions == 1..Len(rows)
      permutations ==
        { g \in [positions -> positions] :
            \A k, n \in positions : k # n => g[k] # g[n] }
  IN  { [k \in positions |-> rows[g[k]]] :
          g \in { h \in permutations :
                    \A k \in 1..(Len(rows) - 1) :
                      CompareUsers(rows[h[k]], rows[h[k + 1]]) < 0 } }

\* allUsers of the view: the comparator orders the rows of ViewPools
\* totally, so the sort has one outcome
allUsers == CHOOSE rows \in getAllUsers(ViewPools) : TRUE

\* The values of the state filter
StateFilters == {"all", "Ohio", "Texas"}

KeptByFilter(user) == stateFilter = "all" \/ user.state = stateFilter

\* filteredUsers: the rows of the table
filteredUsers == SelectSeq(allUsers, KeptByFilter)

\* filteredUsers.find((u) => u.name === name): the position of the first
\* row with that name, 0 when there is none
RECURSIVE findUser(_, _, _)
findUser(users, i, name) ==
  IF i > Len(users) THEN 0
  ELSE IF users[i].name = name THEN i
  ELSE findUser(users, i + 1, name)

\* handleToggleExcluded(name)
handleToggleExcluded(name) ==
  LET found == findUser(filteredUsers, 1, name)
  IN  IF found > 0
        THEN Toggle(name, filteredUsers[found].state, ViewProgram, Undefined)
        ELSE UNCHANGED vars

\* A click on the button of row k of the table: onToggleExcluded(user.name)
ClickRow(k) ==
  /\ k \in 1..Len(filteredUsers)
  /\ handleToggleExcluded(filteredUsers[k].name)

\* The state filter is set to another value; the view shows the Select
\* once isLoaded
SetStateFilter(filter) ==
  /\ rendered.isLoaded
  /\ uncaught = "none"
  /\ filter # stateFilter
  /\ stateFilter' = filter
  /\ UNCHANGED <<serverVars, hookVars, tabs, keyedOverrides>>

AllUsersNext ==
  \/ LoadEffect
  \/ SaveEffect
  \/ Render
  \/ \E filter \in StateFilters : SetStateFilter(filter)
  \/ \E k \in 1..Len(allUsers) : ClickRow(k)

AllUsersSpec == Init /\ [][AllUsersNext]_vars

\* ================================================================= claims
\* isExcluded on the hook's latest state
isExcluded(name, state, program, visitType) ==
  isExcludedOn(serverExclusions, localOverrides, name, state, program,
               visitType)

\* The views are rendered and usable: loading is over and nothing threw
Usable == isLoaded /\ ~loadPending /\ uncaught = "none"

\* The Exclude / Include buttons are shown and a click is handled on the
\* latest state
Clickable == Usable /\ rendered = HookState /\ ~savePending

\* Every call toggleExcluded(name, state, program, visitType?) can be given
AllToggleArgs == Names \X States \X Programs \X QueryVisits

\* C1 (as stated in the specification): calling toggleExcluded(n, s, p, v)
\* twice in a row returns isExcluded(n, s, p, v) to the value it had before
\* the first call, for every override list the hook can hold, a list loaded
\* from localStorage included.
ToggleTwiceRestores ==
  Clickable =>
    \A a \in AllToggleArgs :
      LET once  == toggleExcludedOn(localOverrides, a[1], a[2], a[3], a[4])
          twice == toggleExcludedOn(once, a[1], a[2], a[3], a[4])
      IN  isExcludedOn(serverExclusions, twice, a[1], a[2], a[3], a[4])
            = isExcluded(a[1], a[2], a[3], a[4])

\* C1 witness: the second toggle of a round trip on a record loaded from
\* localStorage has run: toggleExcluded("Sam", Ohio, HRT) removed the
\* loaded record of "Sam" (the empty list was saved) and, called again,
\* appended its own entry; the query answers true as it did before the
\* first call.
ToggleTwiceWitness ==
  /\ Usable
  /\ serverExclusions.stateExclusions = <<>>
  /\ stored = JsonArray(<<>>)
  /\ localOverrides = << [program |-> "HRT", state |-> "Ohio",
                          user |-> Sam, visitType |-> Undefined] >>
  /\ isExcluded(SamPad, "Ohio", "HRT", Undefined) = "true"

\* C2 (as stated in the specification): one call toggleExcluded(n, s, p, v)
\* that completes changes isExcluded(n, s, p, v) to the opposite value,
\* whatever the base exclusions and the override list are.
ToggleFlipsStatus ==
  [][\A a \in ToggleArgs :
       (  localOverrides' # localOverrides
        /\ Toggle(a[1], a[2], a[3], a[4]) /\ uncaught' = "none"
        /\ isExcluded(a[1], a[2], a[3], a[4]) # TypeError
        /\ isExcluded(a[1], a[2], a[3], a[4])' # TypeError)
         => isExcluded(a[1], a[2], a[3], a[4])'
              # isExcluded(a[1], a[2], a[3], a[4])]_vars

\* name, lower-cased and trimmed, is an element of the flat list
InFlatList(name) ==
  \E i \in 1..Len(serverExclusions.excludedUsers) :
    lowerName(serverExclusions.excludedUsers[i]) = lowerName(name)

\* name, lower-cased and trimmed, is the user of some override entry
InSomeOverride(name) ==
  \E i \in 1..Len(localOverrides) :
    /\ localOverrides[i] # Null
    /\ "user" \in DOMAIN localOverrides[i]
    /\ lowerName(localOverrides[i].user) = lowerName(name)

\* C3 (as stated in the specification): isExcluded(name) without state and
\* program returns true if and only if name, lower-cased and trimmed, is in
\* the flat excludedUsers list or is the user of some override entry.
GlobalQueryConsultsFlatList ==
  \A n \in Names :
    isExcluded(n, Undefined, Undefined, Undefined) # TypeError
      => (isExcluded(n, Undefined, Undefined, Undefined) = "true"
            <=> (InFlatList(n) \/ InSomeOverride(n)))

\* Some entry of list is a StateExclusion record matching the scoped query:
\* same program, same state, same lower-cased trimmed user, and a
\* compatible visit type (none asked, none recorded, or equal).
SomeEntryMatches(list, name, state, program, visitType) ==
  \E i \in 1..Len(list) :
    /\ list[i] # Null
    /\ "user" \in DOMAIN list[i]
    /\ Get(list[i], "program") = program
    /\ Get(list[i], "state") = state
    /\ lowerName(list[i].user) = lowerName(name)
    /\ (  visitType = Undefined
        \/ Get(list[i], "visitType") = Undefined
        \/ Get(list[i], "visitType") = visitType)

\* The scoped queries: state and program are given (and not empty)
ScopedQueries == Names \X (States \ {""}) \X Programs \X QueryVisits

OutsideKey(q, a) ==
  \/ q[3] # a[3]
  \/ q[2] # a[2]
  \/ lowerName(q[1]) # lowerName(a[1])
  \/ (a[4] # Undefined /\ q[4] # Undefined /\ q[4] # a[4])

\* C5: toggleExcluded(n, s, p, v) changes the result of no scoped query
\* outside its key; with a specific v the result for the other visit type
\* stays, also when an override without visit type covers both.
ToggleFrame ==
  [][\A a \in ToggleArgs :
       (localOverrides' # localOverrides /\ Toggle(a[1], a[2], a[3], a[4]))
         => \A q \in ScopedQueries :
              OutsideKey(q, a)
                => isExcluded(q[1], q[2], q[3], q[4])'
                     = isExcluded(q[1], q[2], q[3], q[4])]_vars

\* C5 witness: with a loaded override without visit type covering both
\* visit types, toggleExcluded(Sam, Ohio, HRT, Initial) appended its own
\* entry, and Follow Up is excluded as before (by the loaded override).
ToggleFrameWitness ==
  /\ Usable
  /\ serverExclusions.stateExclusions = <<>>
  /\ Len(localOverrides) = 2
  /\ localOverrides[1] = PersistedBroad
  /\ Get(localOverrides[2], "visitType") = "Initial"
  /\ lowerName(localOverrides[2].user) = lowerName(Sam)
  /\ isExcluded(Sam, "Ohio", "HRT", "Follow Up") = "true"

\* C6 (as stated in the specification): whatever localStorage holds at
\* session start, no later isExcluded, toggleExcluded or count call raises
\* an error.
CorruptStoreNeverRaises == uncaught = "none"

\* A toggle (or the load) changed the state and its write has not been
\* attempted yet
WriteDue == isLoaded /\ (rendered # HookState \/ savePending)

\* Nothing is pending and the last write succeeded
Settled ==
  /\ isLoaded
  /\ rendered = HookState
  /\ ~savePending
  /\ lastIO = "writeOk"

\* C7: once loading has completed, a change of the override list is followed
\* by an attempt to write it unless the session ends first, and whenever
\* no write is pending and the last write succeeded, localStorage holds the
\* serialization of the whole in-memory override list.
PersistenceInSync ==
  /\ [](Settled => stored = JSONstringify(localOverrides))
  /\ (WriteDue ~> ~WriteDue)

\* C7 witness: two toggles were made and both are in localStorage
PersistenceInSyncWitness ==
  /\ Settled
  /\ Len(localOverrides) = 2
  /\ Get(localOverrides[1], "visitType") = "Initial"
  /\ Get(localOverrides[2], "visitType") = "Follow Up"
  /\ stored = JSONstringify(localOverrides)

\* C8: a step that writes localStorage writes the serialization of the
\* in-memory override list as it is at that moment, which is also the list
\* the views query, and the step that changes the in-memory list does not
\* write: the write comes strictly after the update.
WriteOrdering ==
  [][/\ stored' # stored
          => /\ localOverrides' = localOverrides
             /\ rendered.localOverrides = localOverrides
             /\ stored' = JSONstringify(localOverrides)
     /\ localOverrides' # localOverrides => stored' = stored]_vars

\* C8 witness: the write caused by toggleExcluded(Ann, Texas, TRT,
\* Follow Up) is done
WriteOrderingWitness ==
  /\ lastIO = "writeOk"
  /\ ~savePending
  /\ localOverrides = << [program |-> "TRT", state |-> "Texas", user |-> Ann,
                          visitType |-> "Follow Up"] >>
  /\ stored = JSONstringify(localOverrides)
  /\ isExcluded(Ann, "Texas", "TRT", "Follow Up") = "true"

\* C9: no error leaves the hook, and a localStorage access that throws
\* leaves the in-memory override list and localStorage as they were and the
\* hook loaded, so that the views keep working on the in-memory list.
FailuresSwallowed ==
  /\ [](uncaught = "none")
  /\ [][ioFailures' # ioFailures
          => /\ localOverrides' = localOverrides
             /\ stored' = stored
             /\ isLoaded']_vars

\* C9 witness: the write after toggleExcluded(Sam, Ohio, HRT, Initial)
\* threw; the toggle is in memory and not in localStorage, and the query
\* answers from memory.
FailuresSwallowedWitness ==
  /\ lastIO = "writeFail"
  /\ uncaught = "none"
  /\ rendered = HookState
  /\ localOverrides = << [program |-> "HRT", state |-> "Ohio", user |-> Sam,
                          visitType |-> "Initial"] >>
  /\ stored # JSONstringify(localOverrides)
  /\ isExcluded(Sam, "Ohio", "HRT", "Initial") = "true"

\* The (state, program, visitType) arguments of getExcludedCountForState
CountArgs == States \X Programs \X QueryVisits

\* The lists a and b answer every isExcluded and count query alike
SameAnswers(a, b) ==
  /\ \A q \in QueryArgs :
       isExcludedOn(serverExclusions, a, q[1], q[2], q[3], q[4])
         = isExcludedOn(serverExclusions, b, q[1], q[2], q[3], q[4])
  /\ \A c \in CountArgs :
       getExcludedCountForStateOn(serverExclusions, a, c[1], c[2], c[3])
         = getExcludedCountForStateOn(serverExclusions, b, c[1], c[2], c[3])
  /\ \A p \in Programs :
       getTotalExcludedCountOn(serverExclusions, a, p)
         = getTotalExcludedCountOn(serverExclusions, b, p)

\* C10: when a session ended with override list L and its last write done,
\* the list the next session loads from localStorage answers every
\* isExcluded and count query as L did.
ReloadRoundTrip ==
  [][(prevSynced /\ loadPending /\ ~loadPending' /\ lastIO' = "readOk")
       => SameAnswers(localOverrides', prevList)]_vars

\* C10 witness: a session that ended in sync with one entry toggled without
\* visit type and one with it was reloaded: the loaded entry has lost its
\* visitType key and still excludes both visit types.
ReloadRoundTripWitness ==
  /\ prevSynced
  /\ isLoaded
  /\ lastIO = "readOk"
  /\ Len(localOverrides) = 2
  /\ \E i \in 1..2 : /\ "visitType" \notin DOMAIN localOverrides[i]
                      /\ lowerName(localOverrides[i].user) = lowerName(Sam)
  /\ \E i \in 1..2 : Get(localOverrides[i], "visitType") = "Follow Up"
  /\ isExcluded(Sam, "Ohio", "HRT", "Initial") = "true"
  /\ isExcluded(Sam, "Ohio", "HRT", "Follow Up") = "true"

\* The number of entries of list with program p
EntriesOfProgram(list, p) ==
  Cardinality({k \in 1..Len(list) : list[k].program = p})

\* The number of entries of list with program p, state s and a visit type
\* compatible with v (none asked, none recorded, or equal)
EntriesInScope(list, s, p, v) ==
  Cardinality({k \in 1..Len(list) :
                 /\ list[k].program = p
                 /\ list[k].state = s
                 /\ (  v = Undefined
                     \/ Get(list[k], "visitType") = Undefined
                     \/ Get(list[k], "visitType") = v)})

\* The hook's counts on its latest state
getTotalExcludedCount(p) ==
  getTotalExcludedCountOn(serverExclusions, localOverrides, p)

getExcludedCountForState(s, p, v) ==
  getExcludedCountForStateOn(serverExclusions, localOverrides, s, p, v)

\* d is +1 or -1
IsOneStep(d) == d = 1 \/ d = -1

\* C11: getTotalExcludedCount(p) is the number of base StateExclusion
\* records with program p plus the number of override entries with program
\* p, getExcludedCountForState(s, p, v) is the number of base records plus
\* the number of override entries of that program and state with a
\* compatible visit type (a user in both layers counts twice), and a toggle
\* changes the total of its program and every state count its entry
\* matches by exactly +1 or -1.
CountsAreNaiveSums ==
  /\ [](Usable =>
         /\ \A p \in Programs :
              getTotalExcludedCount(p)
                = EntriesOfProgram(serverExclusions.stateExclusions, p)
                  + EntriesOfProgram(localOverrides, p)
         /\ \A c \in States \X Programs \X QueryVisits :
              getExcludedCountForState(c[1], c[2], c[3])
                = EntriesInScope(serverExclusions.stateExclusions,
                                 c[1], c[2], c[3])
                  + EntriesInScope(localOverrides, c[1], c[2], c[3]))
  /\ [][\A a \in ToggleArgs :
          (localOverrides' # localOverrides /\ Toggle(a[1], a[2], a[3], a[4]))
            => /\ IsOneStep(getTotalExcludedCount(a[3])'
                            - getTotalExcludedCount(a[3]))
               /\ \A v \in QueryVisits :
                    (v = Undefined \/ a[4] = Undefined \/ v = a[4])
                      => IsOneStep(getExcludedCountForState(a[2], a[3], v)'
                                   - getExcludedCountForState(a[2], a[3], v))
         ]_vars

\* C11 witness: "Sam" is excluded for HRT/Ohio by a base record and, after
\* toggleExcluded(Sam, Ohio, HRT, Initial), by an override entry too, and is
\* counted twice.
CountsAreNaiveSumsWitness ==
  /\ Usable
  /\ Len(serverExclusions.stateExclusions) = 2
  /\ localOverrides = << [program |-> "HRT", state |-> "Ohio", user |-> Sam,
                          visitType |-> "Initial"] >>
  /\ getExcludedCountForState("Ohio", "HRT", "Initial") = 2
  /\ getTotalExcludedCount("HRT") = 2

\* ------------------------------------------------- claims on the parser
\* loadProgramData has parsed a table with its two header rows and data
TableParsed == resourcePools.status = "parsed" /\ Len(csvFile.rows) >= MinRows

Columns == 1..Len(csvFile.rows[1])

\* The header cell of column j is blank
BlankHeader(j) == trim(csvFile.rows[1][j]) = <<>>

\* The header cell of column j is a state header: not blank, not rejected
StateHeader(j) == ~BlankHeader(j) /\ ~shouldIgnoreHeader(csvFile.rows[1][j])

\* The state headers before column j
StateHeadersBefore(j) == {i \in 1..(j - 1) : StateHeader(i)}

\* The nearest state header before column j
NearestStateHeader(j) ==
  CHOOSE i \in StateHeadersBefore(j) : \A m \in StateHeadersBefore(j) : m <= i

\* The state name written in the state header of column i: its text with
\* a trailing note in parentheses removed and white space normalized
StateNameOf(i) == CleanStateName(trim(csvFile.rows[1][i]))

\* The visit type of column j, from its own row-1 label
VisitTypeOf(j) ==
  IF j <= Len(csvFile.rows[2]) /\ includes(toLowerCase(csvFile.rows[2][j]),
                                            TextFollow)
  THEN VisitFollowUp ELSE VisitInitial

\* The columns the parser reads and the state each belongs to: a state
\* header column, or a blank one after a state header
ReadColumn(j) == StateHeader(j) \/ (BlankHeader(j) /\ StateHeadersBefore(j) # {})

StateOfColumn(j) ==
  IF StateHeader(j) THEN StateNameOf(j) ELSE StateNameOf(NearestStateHeader(j))

\* The 1-based indices of the data rows in csvFile.rows
DataRowIndices == 3..Len(csvFile.rows)

\* Column j of data row r holds a user name: a cell that is not empty after
\* normalization and is no legend or placeholder text
HoldsUser(r, j) ==
  /\ j <= Len(csvFile.rows[r])
  /\ LET normalized == normalizeUserName(csvFile.rows[r][j])
     IN  normalized # <<>> /\ ~IsSentinel(toLowerCase(normalized))

UserAt(r, j) == normalizeUserName(csvFile.rows[r][j])

\* user is in the returned pool of (state, visitType)
InPool(user, state, visitType) ==
  \E k \in 1..Len(resourcePools.pools) :
    /\ resourcePools.pools[k].state = state
    /\ resourcePools.pools[k].visitType = visitType
    /\ \E m \in 1..Len(resourcePools.pools[k].users) :
         resourcePools.pools[k].users[m] = user

\* Every user of every returned pool comes from a column read for the
\* pool's state and visit type
PoolsComeFromReadColumns ==
  \A k \in 1..Len(resourcePools.pools) :
    \A m \in 1..Len(resourcePools.pools[k].users) :
      \E j \in Columns, r \in DataRowIndices :
        /\ ReadColumn(j)
        /\ StateOfColumn(j) = resourcePools.pools[k].state
        /\ VisitTypeOf(j) = resourcePools.pools[k].visitType
        /\ HoldsUser(r, j)
        /\ UserAt(r, j) = resourcePools.pools[k].users[m]

DistinctUsersNoEmptyPool ==
  resourcePools.status = "parsed" =>
    \A k \in 1..Len(resourcePools.pools) :
      /\ Len(resourcePools.pools[k].users) > 0
      /\ \A m, n \in 1..Len(resourcePools.pools[k].users) :
           m # n => resourcePools.pools[k].users[m]
                      # resourcePools.pools[k].users[n]

\* C13 witness: the rows [Ohio, "", Utah], [Initial, Follow Up, Initial]
\* and twice [" Al ", "al", ""] were parsed: "Al" was collected twice and
\* is once in Ohio/Initial, "al" stays beside it as a different string, and
\* the Utah column, which holds no name, gives no pool.
DistinctUsersNoEmptyPoolWitness ==
  /\ resourcePools.status = "parsed"
  /\ csvFile.rows = << <<CellOhio, CellBlank, CellUtah>>,
                       <<CellInitial, CellFollowUp, CellInitial>>,
                       <<CellAlPadded, CellAlLower, CellBlank>>,
                       <<CellAlPadded, CellAlLower, CellBlank>> >>
  /\ resourcePools.pools =
       << [program |-> poolProgram, state |-> CellOhio,
           visitType |-> VisitInitial, users |-> <<CellAl>>],
          [program |-> poolProgram, state |-> CellOhio,
           visitType |-> VisitFollowUp, users |-> <<CellAlLower>>] >>


\* text, trimmed, with white space collapsed and case ignored, is one of
\* the legend words or holds one of the legend phrases
SentinelText(text) ==
  LET folded == toLowerCase(normalizeUserName(text))
  IN  \/ folded \in { TextClosed, TextKey, TextBackUp }
      \/ \E phrase \in { TextPleaseAdd, TextPending, TextProviderHas,
                          TextLicense } : includes(folded, phrase)

\* C14: no returned pool holds a user that is legend text ("closed", "key",
\* "back-up" as the whole cell; "please add", "pending", "provider has",
\* "license" anywhere in it; case and surrounding white space ignored), and
\* every other cell of a read column that is not empty after normalization
\* is, normalized, in the pool of that column.
SentinelFiltering ==
  TableParsed =>
    /\ \A k \in 1..Len(resourcePools.pools) :
         \A m \in 1..Len(resourcePools.pools[k].users) :
           ~SentinelText(resourcePools.pools[k].users[m])
    /\ \A j \in Columns, r \in DataRowIndices :
         ( /\ ReadColumn(j)
           /\ j <= Len(csvFile.rows[r])
           /\ normalizeUserName(csvFile.rows[r][j]) # <<>>
           /\ ~SentinelText(csvFile.rows[r][j]) )
           => InPool(normalizeUserName(csvFile.rows[r][j]),
                     StateOfColumn(j), VisitTypeOf(j))

\* C14 witness: the rows [Ohio, "", Utah], [Initial, Follow Up, Initial],
\* [Closed, " KEY ", Back-Up], ["Al   B", "No License", "Bo pending"] were
\* parsed: of the six cells only "Al B" is a user, in Ohio/Initial.
SentinelFilteringWitness ==
  /\ TableParsed
  /\ csvFile.rows = << <<CellOhio, CellBlank, CellUtah>>,
                       <<CellInitial, CellFollowUp, CellInitial>>,
                       <<CellClosed, CellKeyPadded, CellBackUp>>,
                       <<CellAlB, CellNoLicense, CellPendingBo>> >>
  /\ resourcePools.pools =
       << [program |-> poolProgram, state |-> CellOhio,
           visitType |-> VisitInitial,
           users |-> << <<"A", "l", " ", "B">> >>] >>


\* C15: the returned pools are sorted by state name (in the order of
\* localeCompare), and of two pools of one state the Initial pool is
\* before the Follow Up pool.
PoolsSorted ==
  resourcePools.status = "parsed" =>
    \A k, m \in 1..Len(resourcePools.pools) :
      k < m =>
        /\ localeCompare(resourcePools.pools[k].state,
                         resourcePools.pools[m].state) <= 0
        /\ resourcePools.pools[k].state = resourcePools.pools[m].state
             => ~( /\ resourcePools.pools[k].visitType = VisitFollowUp
                   /\ resourcePools.pools[m].visitType = VisitInitial )

\* C15 witness: the rows [Utah, "Ohio  (no marketing)", Ohio],
\* [Initial, Follow Up, Initial], [Al, Bo, Bo] were parsed: the pools were
\* collected as Utah/Initial, Ohio/Follow Up, Ohio/Initial and are returned
\* as Ohio/Initial, Ohio/Follow Up, Utah/Initial.
PoolsSortedWitness ==
  /\ resourcePools.status = "parsed"
  /\ csvFile.rows = << <<CellUtah, CellOhioNote, CellOhio>>,
                       <<CellInitial, CellFollowUp, CellInitial>>,
                       <<CellAl, CellBo, CellBo>> >>
  /\ resourcePools.pools =
       << [program |-> poolProgram, state |-> CellOhio,
           visitType |-> VisitInitial, users |-> <<CellBo>>],
          [program |-> poolProgram, state |-> CellOhio,
           visitType |-> VisitFollowUp, users |-> <<CellBo>>],
          [program |-> poolProgram, state |-> CellUtah,
           visitType |-> VisitInitial, users |-> <<CellAl>>] >>


\* C16: parseResourcePoolCsv never raises to its caller; a table of fewer
\* than three rows gives no pool; a table with short data rows or with a
\* visit-type row shorter than the header row gives the pools of the cells
\* that are there, a column without a row-1 label being an Initial column.
ParserNeverRaises ==
  /\ resourcePools.status # "parser raised"
  /\ (resourcePools.status # "pending" /\ csvFile.readable)
       => resourcePools.status = "parsed"
  /\ (resourcePools.status = "parsed" /\ Len(csvFile.rows) < MinRows)
       => resourcePools.pools = <<>>
  /\ TableParsed =>
       \A j \in Columns, r \in DataRowIndices :
         (ReadColumn(j) /\ HoldsUser(r, j))
           => InPool(UserAt(r, j), StateOfColumn(j),
                     IF j <= Len(csvFile.rows[2])
                     THEN getVisitType(csvFile.rows[2][j]) ELSE VisitInitial)

\* C16 witness: the rows [Utah, "Unnamed: 1", ""], ["", Follow Up],
\* [Al, Bo, Bo], [Bo] were parsed: column 3 has no row-1 label and the
\* last row has one cell; the result is the pool Utah/Initial of Al and Bo.
ParserNeverRaisesWitness ==
  /\ resourcePools.status = "parsed"
  /\ csvFile.rows = << <<CellUtah, CellUnnamed, CellBlank>>,
                       <<CellBlank, CellFollowUp>>,
                       <<CellAl, CellBo, CellBo>>, <<CellBo>> >>
  /\ resourcePools.pools =
       << [program |-> poolProgram, state |-> CellUtah,
           visitType |-> VisitInitial, users |-> <<CellAl, CellBo>>] >>


\* ------------------------------------------------ claims on the loaders
\* exclusions.json holds a JSON object
ExclusionsFileIsObject ==
  exclusionsFile.kind = "json" /\ exclusionsFile.data.type = "object"

\* The field of the result is the field of the document when that is a
\* list and the empty list otherwise
FieldKeptOrEmptied(returned, field) ==
  IF exclusionsFile.data.fields[field].type = "array"
  THEN returned = exclusionsFile.data.fields[field]
  ELSE returned = EmptyArray

\* C17: loadExclusions always returns two lists: both empty when the file
\* is missing, is not JSON or holds no object, and otherwise each field as
\* in the document if it is a list there and empty if it is absent or no
\* list; loadProgramData returns no pool when its file cannot be read.
LoadersNeverFail ==
  /\ exclusionsData.status = "returned" =>
       /\ exclusionsData.excludedUsers.type = "array"
       /\ exclusionsData.stateExclusions.type = "array"
       /\ ~ExclusionsFileIsObject =>
            /\ exclusionsData.excludedUsers = EmptyArray
            /\ exclusionsData.stateExclusions = EmptyArray
       /\ ExclusionsFileIsObject =>
            /\ FieldKeptOrEmptied(exclusionsData.excludedUsers,
                                  "excludedUsers")
            /\ FieldKeptOrEmptied(exclusionsData.stateExclusions,
                                  "stateExclusions")
  /\ (resourcePools.status # "pending" /\ ~csvFile.readable) =>
       /\ resourcePools.status = "read failed"
       /\ resourcePools.pools = <<>>

\* C17 witness: both loaders have run, hrt.csv being unreadable and
\* exclusions.json being {"excludedUsers": "...", "stateExclusions":
\* [Sam, Ann]}: no pools, excludedUsers is [] and stateExclusions is kept.
LoadersNeverFailWitness ==
  /\ resourcePools = [status |-> "read failed", pools |-> <<>>]
  /\ exclusionsFile = JsonObjectWith(JsonValue("string", <<>>),
                                     JsonValue("array", <<Sam, Ann>>))
  /\ exclusionsData = [status |-> "returned",
                       excludedUsers |-> EmptyArray,
                       stateExclusions |-> JsonValue("array", <<Sam, Ann>>)]


\* ------------------------------------------- claims on the hook, continued
\* C18: the base ExclusionsData passed to the hook is never changed: no
\* toggle, load, save, render, query or reload changes its excludedUsers
\* or its stateExclusions.
BaseNeverChanged ==
  [][ /\ serverExclusions'.excludedUsers = serverExclusions.excludedUsers
      /\ serverExclusions'.stateExclusions = serverExclusions.stateExclusions
    ]_vars

\* C18 witness: with a base of one globally excluded user and two scoped
\* entries, the store was loaded, Ann was toggled for Texas/TRT/Follow Up
\* and the override was saved; the base is as it was passed in.
BaseNeverChangedWitness ==
  /\ Settled
  /\ localOverrides = << [program |-> "TRT", state |-> "Texas", user |-> Ann,
                          visitType |-> "Follow Up"] >>
  /\ stored = JSONstringify(localOverrides)
  /\ serverExclusions =
       [excludedUsers |-> <<Ann>>,
        stateExclusions |-> << [program |-> "HRT", state |-> "Ohio",
                                user |-> Sam],
                               [program |-> "TRT", state |-> "Ohio",
                                user |-> SamPad,
                                visitType |-> "Follow Up"] >>]


\* ---------------------------------------- claims on the parser, continued
\* The header cell of column j is rejected without being blank: it starts
\* with "Unnamed", is "key" or holds "please add", "pending" or
\* "provider has"
RejectedHeader(j) == ~BlankHeader(j) /\ shouldIgnoreHeader(csvFile.rows[1][j])

\* The rows with the data cells of column j emptied
WithColumnEmptied(rows, j) ==
  [r \in 1..Len(rows) |->
     IF r >= MinRows /\ j <= Len(rows[r])
     THEN [rows[r] EXCEPT ![j] = <<>>] ELSE rows[r]]

\* C19 as stated: a rejected header is handled like an empty header cell,
\* so the users of its column are in the pool of the state of the nearest
\* state header before it, with the visit type of the column's own label.
RejectedHeaderInherits ==
  TableParsed =>
    \A j \in Columns, r \in DataRowIndices :
      ( /\ shouldIgnoreHeader(csvFile.rows[1][j])
        /\ StateHeadersBefore(j) # {}
        /\ HoldsUser(r, j) )
        => InPool(UserAt(r, j), StateNameOf(NearestStateHeader(j)),
                  VisitTypeOf(j))

\* C19 amended: the column of a header that is rejected without being
\* blank is dropped whether or not a state header precedes it: the result
\* is the one of the same table with that column's cells emptied; and the
\* rejected header does not end the reach of the state header before it: a
\* blank header after it still inherits that state.
RejectedHeaderDropped ==
  TableParsed =>
    /\ \A j \in Columns :
         RejectedHeader(j)
           => resourcePools.pools
                \in parseResourcePoolCsv(WithColumnEmptied(csvFile.rows, j),
                                         poolProgram)
    /\ \A j \in Columns, r \in DataRowIndices :
         ( /\ BlankHeader(j)
           /\ StateHeadersBefore(j) # {}
           /\ \E i \in (NearestStateHeader(j) + 1)..(j - 1) :
                RejectedHeader(i)
           /\ HoldsUser(r, j) )
           => InPool(UserAt(r, j), StateNameOf(NearestStateHeader(j)),
                     VisitTypeOf(j))

\* C19 witness: the rows [Utah, "Unnamed: 1", ""],
\* [Initial, Follow Up, Initial], [Al, Bo, Bo] were parsed: the "Bo" under
\* "Unnamed: 1" gives no Utah/Follow Up pool, and the "Bo" of the blank
\* column after it is in Utah/Initial.
RejectedHeaderDroppedWitness ==
  /\ TableParsed
  /\ csvFile.rows = << <<CellUtah, CellUnnamed, CellBlank>>,
                       <<CellInitial, CellFollowUp, CellInitial>>,
                       <<CellAl, CellBo, CellBo>> >>
  /\ RejectedHeader(2)
  /\ HoldsUser(3, 2)
  /\ resourcePools.pools =
       << [program |-> poolProgram, state |-> CellUtah,
           visitType |-> VisitInitial, users |-> <<CellAl, CellBo>>] >>


\* The columns read for the pool of (state, visitType)
PoolColumns(state, visitType) ==
  { j \in Columns : /\ ReadColumn(j)
                    /\ VisitTypeOf(j) = visitType
                    /\ StateOfColumn(j) = state }

\* The cells <<r, j>> of the columns of a pool that hold user
Occurrences(user, columns) ==
  { c \in DataRowIndices \X columns :
      HoldsUser(c[1], c[2]) /\ UserAt(c[1], c[2]) = user }

\* Cell c is before cell d in the scan row by row and, within a row, by
\* column index
ScannedBefore(c, d) == c[1] < d[1] \/ (c[1] = d[1] /\ c[2] < d[2])

\* The first cell of the scan that holds user for the pool
FirstOccurrence(user, columns) ==
  LET cells == Occurrences(user, columns)
  IN  CHOOSE c \in cells : \A d \in cells : c = d \/ ScannedBefore(c, d)

\* C20: within a pool the users are in first-seen order: every user has a
\* cell in the pool's columns, and of two users of a pool the one whose
\* first cell comes earlier in the scan row by row, column by column, is
\* earlier in the list.
FirstSeenOrder ==
  TableParsed =>
    \A k \in 1..Len(resourcePools.pools) :
      LET pool    == resourcePools.pools[k]
          columns == PoolColumns(pool.state, pool.visitType)
      IN  /\ \A m \in 1..Len(pool.users) :
               Occurrences(pool.users[m], columns) # {}
          /\ \A m \in 1..(Len(pool.users) - 1) :
               ScannedBefore(FirstOccurrence(pool.users[m], columns),
                             FirstOccurrence(pool.users[m + 1], columns))

\* C20 witness: the rows [Utah, "Unnamed: 1", ""],
\* [Initial, Follow Up, Initial], [Bo], [Al, Bo, Bo] were parsed: the scan
\* of the Utah/Initial columns 1 and 3 meets Bo, Al, Bo and the pool is
\* Bo, Al.
FirstSeenOrderWitness ==
  /\ TableParsed
  /\ csvFile.rows = << <<CellUtah, CellUnnamed, CellBlank>>,
                       <<CellInitial, CellFollowUp, CellInitial>>,
                       <<CellBo>>, <<CellAl, CellBo, CellBo>> >>
  /\ resourcePools.pools =
       << [program |-> poolProgram, state |-> CellUtah,
           visitType |-> VisitInitial, users |-> <<CellBo, CellAl>>] >>


\* ------------------------------------------------ claims on two sessions
\* Tab t has loaded, rendered and saved, and localStorage holds its list
TabInSync(t) ==
  /\ tabs[t].isLoaded
  /\ ~tabs[t].savePending
  /\ tabs[t].rendered = TabState(t)
  /\ stored = JSONstringify(tabs[t].localOverrides)

\* The records of the list in localStorage
PersistedRecords(text) ==
  IF ParsesToArray(text)
  THEN { JSONparse(text)[k] : k \in 1..Len(JSONparse(text)) }
  ELSE {}

\* C21: sessions share no mutable state: a step of one tab never changes
\* what the other tab has persisted, so every toggle a tab has completed
\* and persisted is still in localStorage after any step of the other tab
\* (each tab toggles a row of its own; neither undoes the other's toggle).
SessionsIsolated ==
  [][\A t \in Tabs :
       (TabInSync(t) /\ tabs'[t] = tabs[t])
         => \A k \in 1..Len(tabs[t].localOverrides) :
              StringifyItem(tabs[t].localOverrides[k])
                \in PersistedRecords(stored')]_vars


\* ------------------------------------- claims on the name-keyed variant
\* C22: in the name-keyed variant a toggle of a name always negates the
\* answer of isExcluded for that name, whatever toggles were made before,
\* also toggles of the same name written in another letter case.
KeyedToggleNegates ==
  \A name \in KeyedNames :
    keyedIsExcluded(serverExclusions,
                    keyedToggleExcluded(serverExclusions, keyedOverrides,
                                        name),
                    name)
      # keyedIsExcluded(serverExclusions, keyedOverrides, name)


\* ------------------------------------------- claims on the first write
\* The step is the first successful write after the load of a session
FirstWriteStep ==
  lastIO \in {"readOk", "readFail"} /\ lastIO' = "writeOk"

\* What the first write must store: the list held by localStorage, or the
\* empty list when localStorage holds no list
LoadedOrEmpty(text) ==
  IF ParsesToArray(text) THEN JSONstringify(JSONparse(text))
  ELSE JSONstringify(<<>>)

\* C23: from mount until the load step has finished no write to the
\* persisted key occurs, and the first write of a session stores the list
\* that localStorage held, the empty list only when it held no list: never
\* an empty list in place of valid stored overrides.
NoOverwriteBeforeLoad ==
  /\ [][stored' # stored => (isLoaded /\ ~loadPending)]_vars
  /\ [][FirstWriteStep => stored' = LoadedOrEmpty(stored)]_vars


\* ------------------------------------------ claims on the override list
\* The entries a and b have the same program, state, lower-cased trimmed
\* user and visit type
SameOverrideKey(a, b) ==
  /\ Get(a, "program") = Get(b, "program")
  /\ Get(a, "state") = Get(b, "state")
  /\ lowerName(a.user) = lowerName(b.user)
  /\ Get(a, "visitType") = Get(b, "visitType")

\* C24: starting from an empty or duplicate-free persisted list, after any
\* sequence of toggleExcluded calls the override list never holds two
\* entries with the same program, state, case-insensitive trimmed user name
\* and visit type.
OverridesUnique ==
  \A i, j \in 1..Len(localOverrides) :
    i < j => ~SameOverrideKey(localOverrides[i], localOverrides[j])

\* C24 witness: the list loaded from localStorage holds Sam for Ohio / HRT
\* without visit type; toggleExcluded(" sam ", Ohio, HRT, Initial) added a
\* second entry that differs from it in the visit type only.
OverridesUniqueWitness ==
  /\ isLoaded
  /\ Len(localOverrides) = 2
  /\ localOverrides[1] = PersistedBroad
  /\ localOverrides[2] = [program |-> "HRT", state |-> "Ohio",
                          user |-> SamPad, visitType |-> "Initial"]


\* ------------------------------------------- claims on base exclusions
\* A record of the base stateExclusions matches the scoped query
BaseMatches(name, state, program, visitType) ==
  \E k \in 1..Len(serverExclusions.stateExclusions) :
    ScopedMatch(serverExclusions.stateExclusions[k], name, state, program,
                visitType) = "true"

\* C25: when a base StateExclusion record matches (name, state, program,
\* visitType), isExcluded(name, state, program, visitType) is true in every
\* reachable state, whatever toggles were applied and whatever the
\* persisted override list contains.
BasePermanent ==
  \A q \in ScopedQueries :
    BaseMatches(q[1], q[2], q[3], q[4])
      => isExcludedOn(serverExclusions, localOverrides,
                      q[1], q[2], q[3], q[4]) = "true"


\* C26: in every reachable state and for every name, state, program and
\* visit type, when isExcluded(name, state, program, visitType) is true the
\* unscoped isExcluded(name) is true as well.
ScopedImpliesGlobal ==
  \A name \in Names :
    LET global == isExcluded(name, Undefined, Undefined, Undefined)
    IN  \/ global = "true"
        \/ \A state \in QueryStates, program \in QueryPrograms,
              visitType \in QueryVisits :
             isExcluded(name, state, program, visitType) # "true"

\* C26 witness: Ann, in no base state exclusion, was toggled for Texas /
\* TRT / Follow Up; the scoped and the unscoped query both answer true.
ScopedImpliesGlobalWitness ==
  /\ Usable
  /\ \A k \in 1..Len(serverExclusions.stateExclusions) :
       lowerName(serverExclusions.stateExclusions[k].user) # lowerName(Ann)
  /\ localOverrides = << [program |-> "TRT", state |-> "Texas", user |-> Ann,
                          visitType |-> "Follow Up"] >>
  /\ isExcluded(Ann, "Texas", "TRT", "Follow Up") = "true"
  /\ isExcluded(Ann, Undefined, Undefined, Undefined) = "true"
  /\ isExcluded(Sam, "Texas", "TRT", "Follow Up") = "false"


\* ---------------------------------------- claims on unusual state headers
\* C27: every pool returned by parseResourcePoolCsv has a non-empty state
\* name, for every header row, also when a header consists of a
\* parenthetical annotation only.
PoolStatesNonEmpty ==
  \A k \in 1..Len(resourcePools.pools) : resourcePools.pools[k].state # <<>>


\* The column map the parser builds for the table of csvFile
ColumnMapOfFile == BuildColumnMap(csvFile.rows[1], csvFile.rows[2], 1, <<>>)

\* C28: the output of parseResourcePoolCsv holds at most one pool per
\* (state, visitType), every pool's visitType is Initial or Follow Up, and
\* every pool's (state, visitType) is the pair assigned to a mapped header
\* column, for every state name, also one that holds the character "|".
PoolKeysWellFormed ==
  resourcePools.status = "parsed"
    => LET pools == resourcePools.pools
       IN  /\ \A i, j \in 1..Len(pools) :
                i < j => \/ pools[i].state # pools[j].state
                         \/ pools[i].visitType # pools[j].visitType
           /\ \A k \in 1..Len(pools) :
                pools[k].visitType \in {VisitInitial, VisitFollowUp}
           /\ \A k \in 1..Len(pools) :
                \E c \in 1..Len(ColumnMapOfFile) :
                  /\ ColumnMapOfFile[c].mapped
                  /\ ColumnMapOfFile[c].state = pools[k].state
                  /\ ColumnMapOfFile[c].visitType = pools[k].visitType


\* ------------------------------------------ claims on the All Users view
\* The exclusion status the view shows for a row, on override list list
RowStatus(list, user) ==
  isExcludedOn(serverExclusions, list, user.name, user.state, ViewProgram,
               Undefined)

\* C29: in the All Users view a click on the toggle of the row for (name,
\* state) calls toggleExcluded with that row's state: after the click the
\* exclusion status has changed for the clicked row and for no row of
\* another state, also when the name appears in several states.
ClickTogglesItsRow ==
  [][\A k \in 1..Len(filteredUsers) :
       ClickRow(k)
         => LET row == filteredUsers[k]
            IN  /\ localOverrides' =
                     toggleExcludedOn(localOverrides, row.name, row.state,
                                      ViewProgram, Undefined)
                /\ RowStatus(localOverrides', row)
                     # RowStatus(localOverrides, row)
                /\ \A j \in 1..Len(allUsers) :
                     allUsers[j].state # row.state
                       => RowStatus(localOverrides', allUsers[j])
                            = RowStatus(localOverrides, allUsers[j])]_vars


\* ------------------------------------------------------ claims on loading
\* C30: in every session isLoaded eventually becomes true, whether the
\* persisted value is present, absent, corrupt or unreadable; once true it
\* stays true until the hook is mounted again; and until it is true the
\* views render the loading placeholder only: what they render was not
\* rendered as loaded, and the override list changes by the load step or a
\* new mount only.
LoadingCompletes ==
  /\ (~isLoaded ~> isLoaded)
  /\ [][(isLoaded /\ ~isLoaded') => loadPending']_vars
  /\ [](~isLoaded => ~rendered.isLoaded)
  /\ [][(~rendered.isLoaded /\ localOverrides' # localOverrides)
         => (loadPending \/ loadPending')]_vars

\* C30 witness: getItem threw on a localStorage entry that is no JSON; the
\* hook is loaded with the empty list and the views are rendered as loaded.
LoadingCompletesWitness ==
  /\ isLoaded
  /\ rendered.isLoaded
  /\ uncaught = "none"
  /\ lastIO = "readFail"
  /\ stored = Garbage
  /\ localOverrides = <<>>

====
